---- MODULE Spec2Model ----
(***************************************************************************)
(* Model of the Google Maps lead scraper: the business-website classifier  *)
(* (isRealBusinessWebsite / cleanWebsiteUrl), the industry orchestrator    *)
(* (processAllIndustries / scrapeGoogleMaps), the single-run scraper       *)
(* variant, and the Proff.no enrichment pass (expandExcelWithContactPersons*)
(* with its SIGINT/SIGTERM shutdown handler).                              *)
(*                                                                         *)
(* JavaScript strings that the code inspects character by character (URLs, *)
(* host names, the "Not found" sentinel) are sequences of one-character    *)
(* strings, so that includes(), split(), startsWith() and toLowerCase()    *)
(* are computed as the code computes them.                                 *)
(***************************************************************************)
EXTENDS Integers, Sequences, FiniteSets, TLC

(***************************************************************************)
(* String primitives                                                       *)
(***************************************************************************)
UpperChars == <<"A","B","C","D","E","F","G","H","I","J","K","L","M","N","O","P","Q","R","S","T","U","V","W","X","Y","Z">>
LowerChars == <<"a","b","c","d","e","f","g","h","i","j","k","l","m","n","o","p","q","r","s","t","u","v","w","x","y","z">>
DigitChars == {"0","1","2","3","4","5","6","7","8","9"}

\* String.prototype.toLowerCase on one character
ToLowerChar(c) ==
  IF \E i \in 1..Len(UpperChars) : UpperChars[i] = c
  THEN LowerChars[CHOOSE i \in 1..Len(UpperChars) : UpperChars[i] = c]
  ELSE c

\* String.prototype.toLowerCase
ToLowerCase(s) == [i \in 1..Len(s) |-> ToLowerChar(s[i])]

\* String.prototype.startsWith
StartsWith(s, p) == Len(p) <= Len(s) /\ SubSeq(s, 1, Len(p)) = p

\* String.prototype.includes: p occurs in s as a contiguous substring
Includes(s, p) ==
  \E i \in 1..(Len(s) - Len(p) + 1) : SubSeq(s, i, i + Len(p) - 1) = p

\* the part of s after its first n characters
Drop(s, n) == SubSeq(s, n + 1, Len(s))

\* index of the first character of s that is in the set cs, 0 when none
FirstIndexIn(s, cs) ==
  IF \E i \in 1..Len(s) : s[i] \in cs
  THEN CHOOSE i \in 1..Len(s) : s[i] \in cs /\ \A j \in 1..(i - 1) : s[j] \notin cs
  ELSE 0

\* index of the last occurrence of the character c in s, 0 when none
LastIndexOf(s, c) ==
  IF \E i \in 1..Len(s) : s[i] = c
  THEN CHOOSE i \in 1..Len(s) : s[i] = c /\ \A j \in (i + 1)..Len(s) : s[j] # c
  ELSE 0

\* String.prototype.split on a one-character separator
RECURSIVE Split(_, _)
Split(s, c) ==
  LET k == FirstIndexIn(s, {c})
  IN  IF k = 0 THEN <<s>>
      ELSE <<SubSeq(s, 1, k - 1)>> \o Split(Drop(s, k), c)

EmptyString == <<>>
NotFound == <<"N","o","t"," ","f","o","u","n","d">>
S_google == <<"g","o","o","g","l","e">>
S_facebook == <<"f","a","c","e","b","o","o","k">>
S_instagram == <<"i","n","s","t","a","g","r","a","m">>
S_www == <<"w","w","w">>
S_http == <<"h","t","t","p">>
S_httpColon == <<"h","t","t","p",":">>
S_httpsColon == <<"h","t","t","p","s",":">>
S_httpsPrefix == <<"h","t","t","p","s",":","/","/">>
S_googleCom == <<"g","o","o","g","l","e",".","c","o","m">>
S_mapsGoogleCom == <<"m","a","p","s",".","g","o","o","g","l","e",".","c","o","m">>
S_javascript == <<"j","a","v","a","s","c","r","i","p","t",":">>

(***************************************************************************)
(* Domain classifier: scraper.js 173-264 (the single-run variant carries   *)
(* the same two functions verbatim).                                       *)
(***************************************************************************)
nonBusinessDomains ==
  << <<"w","o","l","t",".","c","o","m">>,
     <<"f","o","o","d","o","r","a",".","n","o">>,
     <<"j","u","s","t","-","e","a","t",".","n","o">>,
     <<"u","b","e","r",".","c","o","m">>,
     <<"d","o","o","r","d","a","s","h",".","c","o","m">>,
     <<"g","r","u","b","h","u","b",".","c","o","m">>,
     <<"d","e","l","i","v","e","r","o","o",".","c","o","m">>,
     <<"g","o","o","g","l","e",".","c","o","m">>,
     <<"g","o","o","g","l","e",".","n","o">>,
     <<"g","o","o","g","l","e","m","a","p","s",".","c","o","m">>,
     <<"m","a","p","s",".","g","o","o","g","l","e",".","c","o","m">>,
     <<"f","a","c","e","b","o","o","k",".","c","o","m">>,
     <<"i","n","s","t","a","g","r","a","m",".","c","o","m">>,
     <<"t","r","i","p","a","d","v","i","s","o","r",".","c","o","m">>,
     <<"y","e","l","p",".","c","o","m">>,
     <<"f","o","u","r","s","q","u","a","r","e",".","c","o","m">>,
     <<"z","o","m","a","t","o",".","c","o","m">>,
     <<"o","p","e","n","t","a","b","l","e",".","c","o","m">>,
     <<"r","e","s","y",".","c","o","m">>,
     <<"b","o","o","k","a","t","a","b","l","e",".","c","o","m">>,
     <<"t","h","e","f","o","r","k",".","c","o","m">>,
     <<"t","i","k","t","o","k",".","c","o","m">>,
     <<"y","o","u","t","u","b","e",".","c","o","m">>,
     <<"p","i","n","t","e","r","e","s","t",".","c","o","m">>,
     <<"s","n","a","p","c","h","a","t",".","c","o","m">>,
     <<"l","i","n","k","e","d","i","n",".","c","o","m">>,
     <<"t","w","i","t","t","e","r",".","c","o","m">>,
     <<"b","o","o","k","i","n","g",".","r","e","s","d","i","a","r","y",".","c","o","m">>,
     <<"b","o","o","k","i","n","g",".","g","a","s","t","r","o","p","l","a","n","n","e","r",".","n","o">>,
     <<"r","e","s","d","i","a","r","y",".","c","o","m">>,
     <<"g","a","s","t","r","o","p","l","a","n","n","e","r",".","n","o">> >>

\* characters a host name may consist of once lowercased
HostChars == {LowerChars[i] : i \in 1..Len(LowerChars)} \cup DigitChars \cup {".", "-"}

\* s without its leading run of the character c
RECURSIVE StripLeading(_, _)
StripLeading(s, c) ==
  IF s # <<>> /\ s[1] = c THEN StripLeading(Tail(s), c) ELSE s

\* `new URL(url)` followed by `.hostname`, for http: and https: URLs (the
\* only scheme the website extraction ever produces): the scheme is matched
\* case-insensitively, the slashes after it are skipped, the authority ends
\* at the first "/", "?" or "#", user info up to the last "@" and a numeric
\* port after ":" are dropped, and the host is lowercased.  ok = FALSE is
\* the TypeError the constructor throws.
ParseURL(url) ==
  LET low    == ToLowerCase(url)
      rest0  == IF StartsWith(low, S_httpsColon) THEN Drop(url, Len(S_httpsColon))
                ELSE Drop(url, Len(S_httpColon))
      rest   == StripLeading(rest0, "/")
      endA   == FirstIndexIn(rest, {"/", "?", "#"})
      auth   == IF endA = 0 THEN rest ELSE SubSeq(rest, 1, endA - 1)
      hp     == Drop(auth, LastIndexOf(auth, "@"))
      colon  == FirstIndexIn(hp, {":"})
      host   == ToLowerCase(IF colon = 0 THEN hp ELSE SubSeq(hp, 1, colon - 1))
      port   == IF colon = 0 THEN <<>> ELSE Drop(hp, colon)
  IN  IF ~(StartsWith(low, S_httpsColon) \/ StartsWith(low, S_httpColon))
        THEN [ok |-> FALSE, hostname |-> EmptyString]
      ELSE IF host = EmptyString \/ (\E i \in 1..Len(host) : host[i] \notin HostChars)
        THEN [ok |-> FALSE, hostname |-> EmptyString]
      ELSE IF \E i \in 1..Len(port) : port[i] \notin DigitChars
        THEN [ok |-> FALSE, hostname |-> EmptyString]
      ELSE [ok |-> TRUE, hostname |-> host]

\* the deny-list scan stopping one entry short of the end of the list
IncludesNonBusinessDomain_offByOne(s) ==
  \E k \in 1..(Len(nonBusinessDomains) - 1) : Includes(s, nonBusinessDomains[k])

\* `for (const d of nonBusinessDomains) if (s.includes(d))` and
\* `nonBusinessDomains.some(platform => s.includes(platform))`
IncludesNonBusinessDomain(s) ==
  \E k \in 1..Len(nonBusinessDomains) : Includes(s, nonBusinessDomains[k])

\* mainDomain: the last two dot-separated labels (both branches of the
\* www test at lines 231-235 compute the same value)
MainDomain(domainParts) ==
  domainParts[Len(domainParts) - 1] \o <<".">> \o domainParts[Len(domainParts)]

\* isRealBusinessWebsite with a catch block that returns true
isRealBusinessWebsite_catchTrue(url) ==
  IF url = EmptyString \/ url = NotFound THEN FALSE
  ELSE LET urlObj == ParseURL(url)
           domain == ToLowerCase(urlObj.hostname)
           domainParts == Split(domain, ".")
       IN  IF ~urlObj.ok THEN TRUE
           ELSE IF IncludesNonBusinessDomain(domain) THEN FALSE
           ELSE /\ Includes(domain, <<".">>)
                /\ ~Includes(domain, S_google)
                /\ ~Includes(domain, S_facebook)
                /\ ~Includes(domain, S_instagram)
                /\ Len(domainParts) >= 2
                /\ ~IncludesNonBusinessDomain(MainDomain(domainParts))

isRealBusinessWebsite(url) ==
  IF url = EmptyString \/ url = NotFound THEN FALSE
  ELSE LET urlObj == ParseURL(url)
           domain == ToLowerCase(urlObj.hostname)
           domainParts == Split(domain, ".")
       IN  IF ~urlObj.ok THEN FALSE
           ELSE IF IncludesNonBusinessDomain(domain) THEN FALSE
           ELSE IF /\ Includes(domain, <<".">>)
                   /\ ~Includes(domain, S_google)
                   /\ ~Includes(domain, S_facebook)
                   /\ ~Includes(domain, S_instagram)
                   /\ Len(domainParts) >= 2
                   /\ ~IncludesNonBusinessDomain(MainDomain(domainParts))
                THEN TRUE
           ELSE FALSE

\* cleanWebsiteUrl handing back every link it is given
cleanWebsiteUrl_keepLink(url) ==
  IF url = EmptyString \/ url = NotFound THEN EmptyString
  ELSE url

cleanWebsiteUrl(url) ==
  IF url = EmptyString \/ url = NotFound THEN EmptyString
  ELSE IF isRealBusinessWebsite(url) THEN url
  ELSE EmptyString

(***************************************************************************)
(* URL inputs of the classifier                                            *)
(***************************************************************************)
DenyListed == {nonBusinessDomains[k] : k \in 1..Len(nonBusinessDomains)}

OtherHosts ==
  { <<"j","o","e","s","b","a","k","e","r","y",".","n","o">>,
    <<"m","y","u","b","e","r",".","c","o","m">>,
    <<"F","a","c","e","b","o","o","k",".","c","o","m">>,
    <<"l","o","c","a","l","h","o","s","t">>,
    <<"g","o","o","g","l","e","p","l","e","x",".","i","o">>,
    <<"c","a","f","e",".","c","o",".","u","k">> }

Schemes == { <<"h","t","t","p","s",":","/","/">>, <<"h","t","t","p",":","/","/">>, <<>> }

HostPrefixes == { <<>>, <<"w","w","w",".">>, <<"m",".">>, <<"W","W","W",".">> }

Paths == { <<>>, <<"/">>, <<"/","a","b","c","1","2","3">> }

UrlInputs ==
  { s \o p \o h \o q : s \in Schemes, p \in HostPrefixes,
                       h \in DenyListed \cup OtherHosts, q \in Paths }
  \cup { EmptyString, NotFound, <<"n","o","t"," ","a"," ","u","r","l">>,
         <<"h","t","t","p","s",":","/","/">> }

(***************************************************************************)
(* Bounds                                                                  *)
(***************************************************************************)
\* number of lines of "list of industries.txt"
NumIndustries == 2
\* number of distinct listing URLs the results panel can show
MaxListings == 2
\* number of rows of the workbook the enrichment pass reads
MaxRecords == 2
\* number of SIGINT/SIGTERM signals delivered to the enrichment pass
MaxSignals == 2
\* number of distinct places the results panel can link to while scrolling
MaxPlaces == 3
\* number of anchors one DOM query of the scroll loop can match
MaxLinks == 3
\* number of selectors tried for one field of a listing (six for the address)
MaxSelectors == 2
\* number of industries of a run followed for its session rotations only
MaxRotationIndustries == 4

(***************************************************************************)
(* Program constants                                                       *)
(***************************************************************************)
TEST_LIMIT == 20
maxIndustryRetries == 3
\* 100 in scraper.js line 19; scaled to the size of the bounded runs
SESSION_ROTATION_INTERVAL == 2

\* `let sharedBrowser = null`: no browser
NoBrowser == 0

(***************************************************************************)
(* Listing pages: the outbound anchors of a listing page, in the order the *)
(* website selectors meet them                                             *)
(***************************************************************************)
H_facebook == <<"h","t","t","p","s",":","/","/","w","w","w",".","f","a","c","e","b","o","o","k",".","c","o","m","/","s","o","m","e","b","u","s","i","n","e","s","s">>
H_joesbakery == <<"h","t","t","p","s",":","/","/","w","w","w",".","j","o","e","s","b","a","k","e","r","y",".","n","o","/">>
H_resdiary == <<"b","o","o","k","i","n","g",".","r","e","s","d","i","a","r","y",".","c","o","m","/","a","b","c","1","2","3">>
H_googleMaps == <<"h","t","t","p","s",":","/","/","m","a","p","s",".","g","o","o","g","l","e",".","c","o","m","/","?","c","i","d","=","1">>

PageLinks ==
  { <<>>, <<H_facebook>>, <<H_resdiary>>, <<H_joesbakery>>, <<H_googleMaps, H_joesbakery>>, <<H_googleMaps>> }

\* website extraction, scraper.js 1091-1129: the first href that does not
\* point back to Google and is not a javascript: pseudo-link, given a scheme
RECURSIVE ExtractWebsite(_)
ExtractWebsite(links) ==
  IF links = <<>> THEN NotFound
  ELSE LET href == Head(links)
       IN  IF /\ href # EmptyString
              /\ ~Includes(href, S_googleCom)
              /\ ~Includes(href, S_mapsGoogleCom)
              /\ ~Includes(href, S_javascript)
           THEN (IF StartsWith(href, S_http) THEN href ELSE S_httpsPrefix \o href)
           ELSE ExtractWebsite(Tail(links))

\* what the extraction and the classifier make of one listing page
Extraction(links) ==
  LET website == ExtractWebsite(links)
  IN  [website        |-> website,
       hasRealWebsite |-> isRealBusinessWebsite(website),
       cleanedWebsite |-> cleanWebsiteUrl(website)]

ListingPages == {Extraction(links) : links \in PageLinks}

\* the orders in which a scroll loop can have collected distinct listing URLs
DiscoverOutcomes ==
  { s \in UNION { [1..n -> 1..MaxListings] : n \in 0..MaxListings } :
      \A i, j \in 1..Len(s) : i # j => s[i] # s[j] }

\* results.slice(0, TEST_LIMIT)
Slice(s, n) == SubSeq(s, 1, IF Len(s) < n THEN Len(s) ELSE n)

\* industryResult before the first scrapeGoogleMaps call returns
NullResult == [null |-> TRUE, data |-> <<>>, browser |-> NoBrowser,
               timing |-> [industry |-> 0, totalBusinessesFound |-> 0, businessesProcessed |-> 0,
                           businessesKept |-> 0, businessesFiltered |-> 0, error |-> "none"]]

\* the timingData entry pushed on the two error paths of processAllIndustries
ErrorTiming(industry, error) ==
  [industry |-> industry, totalBusinessesFound |-> 0, businessesProcessed |-> 0,
   businessesKept |-> 0, businessesFiltered |-> 0, error |-> error]

\* lastListing while no listing of the running scrape has been processed
NoListing == [processed |-> FALSE, website |-> EmptyString, kept |-> FALSE]

(***************************************************************************)
(* State                                                                   *)
(***************************************************************************)
VARIABLES
  \* --- classifier run
  c_pc,        \* "input" before the call, "done" after, "off" in other runs
  c_url,       \* the url argument
  c_isReal,    \* value returned by isRealBusinessWebsite(c_url)
  c_clean,     \* value returned by cleanWebsiteUrl(c_url)
  \* --- scraper (scraper.js, and the single-run variant)
  variant,             \* "orchestrator" (scraper.js) or "single" (single-run variant)
  pc,                  \* position of the single thread of control
  index,               \* 1-based position in the industries list
  allResults,          \* processAllIndustries: allResults
  timingData,          \* processAllIndustries: timingData
  sharedBrowser,       \* processAllIndustries: sharedBrowser (and its sharedPage)
  businessesProcessed, \* processAllIndustries: businessesProcessed
  industryRetries,     \* processAllIndustries: industryRetries
  industryResult,      \* processAllIndustries: industryResult
  thrown,              \* the exception in flight: "none", "blocking", "other", "noresults"
  browser,             \* scrapeGoogleMaps: browser (and its page)
  results,             \* scrapeGoogleMaps: results (listing URLs in discovery order)
  excelData,           \* scrapeGoogleMaps: excelData
  lindex,              \* scrapeGoogleMaps: 1-based index of the listing loop
  openBrowsers,        \* browsers launched and not yet closed
  written,             \* the results workbook has been written
  workbook,            \* rows of the written results workbook
  exited,              \* the process has ended
  exitCode,            \* its exit status
  \* --- history of the scraper run
  scrapeCalls,         \* industry index of every scrapeGoogleMaps invocation, in order
  failedIndustries,    \* industries that ended with "No results collected"
  keptLog,             \* listings processed without error and found without a real website
  lastListing,         \* the listing processed last in the running scrape: its extracted
                       \* website and whether the record was appended to excelData
  listingLog,          \* the iterations of the listing loop of the running scrape, in
                       \* order: the listing URL each began with and how it ended
  \* --- scroll loop of scrapeGoogleMaps
  d_pc,                \* "scroll" in the while loop, "convert" after it, "done", or "off"
  d_variant,           \* "orchestrator" (scraper.js) or "single" (single-run variant)
  pageDownAttempts,    \* scrapeGoogleMaps: pageDownAttempts
  allBusinessUrls,     \* scrapeGoogleMaps: allBusinessUrls, a Set, in insertion order
  previousUrlCount,    \* scrapeGoogleMaps: previousUrlCount
  noNewResultsCount,   \* scrapeGoogleMaps: noNewResultsCount
  d_results,           \* scrapeGoogleMaps: results, as built from allBusinessUrls
  \* --- history of the scroll loop
  attemptsStarted,     \* number of loop iterations begun
  lastAttempt,         \* the latest iteration: what it queried and what it did
  \* --- one iteration of the listing loop of scrapeGoogleMaps
  l_pc,                \* "navigate", "name", "address", "website", "phone", "details",
                       \* "decide", "catch", "next", or "off"
  l_pageAt,            \* the page the browser shows: "search", "place" (the place page of
                       \* another listing), "listing" (this listing's), "error" or "off"
  l_businessName,      \* scrapeGoogleMaps: businessName
  l_address,           \* scrapeGoogleMaps: address
  l_website,           \* scrapeGoogleMaps: website
  l_phone,             \* scrapeGoogleMaps: phone
  l_rating,            \* scrapeGoogleMaps: rating
  l_hours,             \* scrapeGoogleMaps: hours
  l_priceLevel,        \* scrapeGoogleMaps: priceLevel
  l_thrown,            \* the exception the iteration's try block ended with, or "none"
  l_record,            \* the record pushed to excelData, as a sequence of at most one
  l_restarted,         \* the catch closed the browser and launched another
  \* --- history of the iteration
  l_failed,            \* the steps that failed: a field whose extraction found no element
                       \* or threw, "navigation", "debug"
  l_decided,           \* the keep/discard test on hasRealWebsite was reached
  l_cascade,           \* the value of phone when the loop over phoneSelectors ended
  l_swept,             \* the search of the whole page for a phone: "unreached", "ran", "skipped"
  l_blocked,           \* isBlocked, once evaluated
  \* --- processAllIndustries, one step per industry: the shared session
  r_pc,                   \* "rotate" at the head of an iteration, "scrape" after the rotation
                          \* test, "done" after the loop, or "off"
  r_index,                \* 1-based position in the industries list
  r_businessesProcessed,  \* processAllIndustries: businessesProcessed
  r_sharedBrowser,        \* processAllIndustries: sharedBrowser
  \* --- history of the shared session
  r_launches,             \* number of browsers launched so far
  r_createdAt,            \* businessesProcessed when the browser in sharedBrowser was launched
  \* --- handleConsent
  cs_pc,               \* "navigate" at the first page.goto, "loop" at the while test,
                       \* "final" after the loop, "returned", or "off"
  consentAttempts,     \* handleConsent: consentAttempts
  currentUrl,          \* handleConsent: currentUrl, as "consent" or "search"
  cs_page,             \* the page the browser shows, "consent" or "search"
  \* --- history of handleConsent
  cs_navigation,       \* how the first page.goto ended: "none", "ok" or "timeout"
  cs_prompts,          \* number of times the operator was asked to press Enter
  cs_exit,             \* how the loop ended: "none", "test", "passed" or "prompted", and
                       \* the page shown at that time
  cs_lastAttempt,      \* what the latest iteration of the loop did
  \* --- enrichment pass (expand.js)
  e_pc,                \* position of expandExcelWithContactPersons
  e_index,             \* 1-based index of the loop over businessesToProcess
  data,                \* the rows read from the workbook, updated in place
  updatedCount,        \* expandExcelWithContactPersons: updatedCount
  foundCount,          \* expandExcelWithContactPersons: foundCount
  notFoundCount,       \* expandExcelWithContactPersons: notFoundCount
  skippedCount,        \* expandExcelWithContactPersons: skippedCount
  shouldStop,          \* expandExcelWithContactPersons: shouldStop
  isShuttingDown,      \* expandExcelWithContactPersons: isShuttingDown
  h_pc,                \* position of shutdownHandler: "idle", "closing", "timer"
  browserOpen,         \* the browser launched by the pass is still open
  progressFile,        \* <name>_PROGRESS_SAVE.xlsx
  emergencyFile,       \* <name>_EMERGENCY_SAVE.xlsx
  outputFile,          \* the input workbook, as rewritten after the loop
  e_exited,            \* the process has ended
  e_exitCode,          \* its exit status
  \* --- history of the enrichment pass
  loaded,              \* data as it was when the loop started
  signals,             \* number of signals delivered
  atSignal,            \* what the first signal found: records finished, data, save result
  loopSaves,           \* saveProgress calls made by the loop body
  lastSaveWrote,       \* the latest saveProgress call wrote the progress workbook
  mainWritesAfterSignal \* saves and workbook writes of the main flow after the first signal

classifierVars == <<c_pc, c_url, c_isReal, c_clean>>

orchestratorVars == <<index, allResults, timingData, sharedBrowser, businessesProcessed,
                      industryRetries, industryResult, thrown>>

scrapeVars == <<browser, results, excelData, lindex>>

processVars == <<openBrowsers, written, workbook, exited, exitCode>>

historyVars == <<scrapeCalls, failedIndustries, keptLog, lastListing, listingLog>>

scraperVars == <<variant, pc, orchestratorVars, scrapeVars, processVars, historyVars>>

discoverVars == <<d_pc, d_variant, pageDownAttempts, allBusinessUrls, previousUrlCount,
                  noNewResultsCount, d_results, attemptsStarted, lastAttempt>>

listingVars == <<l_pc, l_pageAt, l_businessName, l_address, l_website, l_phone, l_rating,
                 l_hours, l_priceLevel, l_thrown, l_record, l_restarted,
                 l_failed, l_decided, l_cascade, l_swept, l_blocked>>

rotationVars == <<r_pc, r_index, r_businessesProcessed, r_sharedBrowser, r_launches, r_createdAt>>

consentVars == <<cs_pc, consentAttempts, currentUrl, cs_page, cs_navigation, cs_prompts, cs_exit, cs_lastAttempt>>

expandStateVars == <<e_pc, e_index, data, updatedCount, foundCount, notFoundCount, skippedCount,
                     shouldStop, isShuttingDown, h_pc, browserOpen>>

expandFileVars == <<progressFile, emergencyFile, outputFile>>

expandHistoryVars == <<loaded, signals, atSignal, loopSaves, lastSaveWrote, mainWritesAfterSignal>>

expandVars == <<expandStateVars, expandFileVars, e_exited, e_exitCode, expandHistoryVars>>

vars == <<classifierVars, consentVars, scraperVars, discoverVars, listingVars, rotationVars, expandVars>>

\* a workbook file that has not been written
NoFile == [written |-> FALSE, rows |-> <<>>]

\* atSignal before any signal
NoSignal == [received |-> FALSE, k |-> 0, data |-> <<>>, saved |-> FALSE, attempts |-> 0,
             outcome |-> "none"]

(***************************************************************************)
(* Classifier specification: one call of both functions on one input       *)
(***************************************************************************)
ClassifierOff ==
  /\ c_pc = "off"
  /\ c_url = EmptyString
  /\ c_isReal = FALSE
  /\ c_clean = EmptyString

\* lastAttempt before the first iteration
NoAttempt == [outcome |-> "none", before |-> <<>>, currentUrls |-> <<>>, counterBefore |-> 0,
              escalated |-> FALSE, pressThrew |-> FALSE]

DiscoverOff ==
  /\ d_pc = "off"
  /\ d_variant = "off"
  /\ pageDownAttempts = 0
  /\ allBusinessUrls = <<>>
  /\ previousUrlCount = 0
  /\ noNewResultsCount = 0
  /\ d_results = <<>>
  /\ attemptsStarted = 0
  /\ lastAttempt = NoAttempt

\* a local of the listing iteration that has not been assigned
Unassigned == <<"unassigned">>

ListingOff ==
  /\ l_pc = "off"
  /\ l_pageAt = "off"
  /\ l_businessName = Unassigned
  /\ l_address = Unassigned
  /\ l_website = Unassigned
  /\ l_phone = Unassigned
  /\ l_rating = Unassigned
  /\ l_hours = Unassigned
  /\ l_priceLevel = Unassigned
  /\ l_cascade = Unassigned
  /\ l_swept = "unreached"
  /\ l_blocked = FALSE
  /\ l_thrown = "none"
  /\ l_record = <<>>
  /\ l_restarted = FALSE
  /\ l_failed = {}
  /\ l_decided = FALSE

\* cs_exit while the loop has not ended
NoExit == [by |-> "none", page |-> "search"]

\* cs_lastAttempt before the first iteration
NoConsentAttempt == [clicked |-> "none", continueUrl |-> "none", threw |-> FALSE]

ConsentOff ==
  /\ cs_pc = "off"
  /\ consentAttempts = 0
  /\ currentUrl = "search"
  /\ cs_page = "search"
  /\ cs_navigation = "none"
  /\ cs_prompts = 0
  /\ cs_exit = NoExit
  /\ cs_lastAttempt = NoConsentAttempt

RotationOff ==
  /\ r_pc = "off"
  /\ r_index = 0
  /\ r_businessesProcessed = 0
  /\ r_sharedBrowser = NoBrowser
  /\ r_launches = 0
  /\ r_createdAt = 0

ScraperOff ==
  /\ variant = "off"
  /\ pc = "off"
  /\ index = 0
  /\ allResults = <<>>
  /\ timingData = <<>>
  /\ sharedBrowser = NoBrowser
  /\ businessesProcessed = 0
  /\ industryRetries = 0
  /\ industryResult = NullResult
  /\ thrown = "none"
  /\ browser = NoBrowser
  /\ results = <<>>
  /\ excelData = <<>>
  /\ lindex = 0
  /\ openBrowsers = {}
  /\ written = FALSE
  /\ workbook = <<>>
  /\ exited = FALSE
  /\ exitCode = 0
  /\ scrapeCalls = <<>>
  /\ failedIndustries = {}
  /\ keptLog = {}
  /\ lastListing = NoListing
  /\ listingLog = <<>>

ExpandOff ==
  /\ e_pc = "off"
  /\ e_index = 0
  /\ data = <<>>
  /\ updatedCount = 0
  /\ foundCount = 0
  /\ notFoundCount = 0
  /\ skippedCount = 0
  /\ shouldStop = FALSE
  /\ isShuttingDown = FALSE
  /\ h_pc = "idle"
  /\ browserOpen = FALSE
  /\ progressFile = NoFile
  /\ emergencyFile = NoFile
  /\ outputFile = NoFile
  /\ e_exited = FALSE
  /\ e_exitCode = 0
  /\ loaded = <<>>
  /\ signals = 0
  /\ atSignal = NoSignal
  /\ loopSaves = 0
  /\ lastSaveWrote = FALSE
  /\ mainWritesAfterSignal = 0

ClassifierInit ==
  /\ c_pc = "input"
  /\ c_url \in UrlInputs
  /\ c_isReal = FALSE
  /\ c_clean = EmptyString
  /\ ConsentOff
  /\ ScraperOff
  /\ DiscoverOff
  /\ ListingOff
  /\ RotationOff
  /\ ExpandOff

Classify ==
  /\ c_pc = "input"
  /\ c_isReal' = isRealBusinessWebsite(c_url)
  /\ c_clean' = cleanWebsiteUrl(c_url)
  /\ c_pc' = "done"
  /\ UNCHANGED <<c_url, consentVars, scraperVars, discoverVars, listingVars, rotationVars, expandVars>>

ClassifierNext == Classify

SpecClassifier == ClassifierInit /\ [][ClassifierNext]_vars

(***************************************************************************)
(* Scraper: processAllIndustries and scrapeGoogleMaps (scraper.js), and    *)
(* the single-run scrapeGoogleMaps of the earlier variant                  *)
(***************************************************************************)
\* outcomes of xlsx.writeFile followed by the EBUSY fallback write
WriteOutcomes == {"ok", "ebusyAltOk", "ebusyAltFail", "fail"}

WriteSucceeds(outcome) == outcome \in {"ok", "ebusyAltOk"}

\* the listings taken from the end of results backwards
businessesToProcess_reversed ==
  [k \in 1..Len(Slice(results, TEST_LIMIT)) |-> results[Len(results) + 1 - k]]

\* businessesToProcess = TEST_LIMIT ? results.slice(0, TEST_LIMIT) : results
businessesToProcess == Slice(results, TEST_LIMIT)

\* the mapping with its last record lost
WithIndustry_dropLast(rows, industry) ==
  [k \in 1..(Len(rows) - 1) |->
     [Name |-> rows[k].Name, Website |-> rows[k].Website, Industry |-> industry]]

\* industryResult.data.map(result => ({...result, Industry: industry}))
WithIndustry(rows, industry) ==
  [k \in 1..Len(rows) |-> [Name |-> rows[k].Name, Website |-> rows[k].Website, Industry |-> industry]]

\* the browser puppeteer.launch returns: one that no variable refers to
FreshBrowser ==
  LET used == openBrowsers \cup {sharedBrowser, browser, industryResult.browser}
  IN  CHOOSE b \in 1..(Cardinality(used) + 1) : b \notin used

ScraperInit ==
  /\ ClassifierOff
  /\ ConsentOff
  /\ DiscoverOff
  /\ ListingOff
  /\ RotationOff
  /\ ExpandOff
  /\ variant \in {"orchestrator", "single"}
  /\ pc = IF variant = "orchestrator" THEN "industryStart" ELSE "singleLaunch"
  /\ index = IF variant = "orchestrator" THEN 1 ELSE 0
  /\ allResults = <<>>
  /\ timingData = <<>>
  /\ sharedBrowser = NoBrowser
  /\ businessesProcessed = 0
  /\ industryRetries = 0
  /\ industryResult = NullResult
  /\ thrown = "none"
  /\ browser = NoBrowser
  /\ results = <<>>
  /\ excelData = <<>>
  /\ lindex = 0
  /\ openBrowsers = {}
  /\ written = FALSE
  /\ workbook = <<>>
  /\ exited = FALSE
  /\ exitCode = 0
  /\ scrapeCalls = <<>>
  /\ failedIndustries = {}
  /\ keptLog = {}
  /\ lastListing = NoListing
  /\ listingLog = <<>>

\* head of the industries loop, with the session rotation (1626-1647)
IndustryStart ==
  /\ pc = "industryStart"
  /\ IF index > NumIndustries
     THEN /\ pc' = "closeShared"
          /\ UNCHANGED <<sharedBrowser, openBrowsers, industryRetries, industryResult>>
     ELSE /\ LET rotate == businessesProcessed > 0
                           /\ businessesProcessed % SESSION_ROTATION_INTERVAL = 0
             IN  /\ sharedBrowser' = IF rotate THEN NoBrowser ELSE sharedBrowser
                 /\ openBrowsers' = IF rotate THEN openBrowsers \ {sharedBrowser} ELSE openBrowsers
          /\ industryRetries' = 0
          /\ industryResult' = NullResult
          /\ pc' = "retryLoop"
  /\ UNCHANGED <<variant, index, allResults, timingData, businessesProcessed, thrown,
                 scrapeVars, written, workbook, exited, exitCode, historyVars, classifierVars, consentVars, discoverVars, listingVars, rotationVars, expandVars>>

\* `while (industryRetries < maxIndustryRetries)` and the call of
\* scrapeGoogleMaps with the shared browser (1649-1651)
RetryLoop ==
  /\ pc = "retryLoop"
  /\ IF industryRetries < maxIndustryRetries
     THEN /\ scrapeCalls' = Append(scrapeCalls, index)
          /\ pc' = "scrapeStart"
     ELSE /\ pc' = "afterRetries"
          /\ UNCHANGED scrapeCalls
  /\ UNCHANGED <<variant, orchestratorVars, scrapeVars, processVars,
                 failedIndustries, keptLog, lastListing, listingLog, classifierVars, consentVars, discoverVars, listingVars, rotationVars, expandVars>>

\* scrapeGoogleMaps up to the scroll loop (571-652): launch a browser when
\* none was handed in, otherwise navigate the shared page; then the results
\* check, which throws the blocking error.  Navigation and evaluation on the
\* page throw when its browser has been closed.
ScrapeStart ==
  /\ pc = "scrapeStart"
  /\ \E launchOk \in BOOLEAN, outcome \in {"ok", "blocking", "other"} :
       /\ (sharedBrowser # NoBrowser /\ sharedBrowser \notin openBrowsers) => outcome = "other"
       /\ openBrowsers' = IF sharedBrowser = NoBrowser /\ launchOk
                          THEN openBrowsers \cup {FreshBrowser} ELSE openBrowsers
       /\ IF sharedBrowser = NoBrowser /\ ~launchOk
          THEN thrown' = "other" /\ pc' = "retryCatch" /\ browser' = NoBrowser
          ELSE IF outcome = "ok"
          THEN /\ thrown' = "none"
               /\ pc' = "discover"
               /\ browser' = IF sharedBrowser = NoBrowser THEN FreshBrowser ELSE sharedBrowser
          ELSE thrown' = outcome /\ pc' = "retryCatch" /\ browser' = NoBrowser
  /\ UNCHANGED <<variant, index, allResults, timingData, sharedBrowser, businessesProcessed,
                 industryRetries, industryResult, results, excelData, lindex,
                 written, workbook, exited, exitCode, historyVars, classifierVars, consentVars, discoverVars, listingVars, rotationVars, expandVars>>

\* the scroll loop and the conversion of the collected set (654-868)
Discover ==
  /\ pc = "discover"
  /\ results' \in DiscoverOutcomes
  /\ excelData' = <<>>
  /\ lindex' = 1
  /\ pc' = "listing"
  /\ UNCHANGED <<variant, orchestratorVars, browser, processVars, historyVars, classifierVars, consentVars, discoverVars, listingVars, rotationVars, expandVars>>

\* one iteration of the listing loop (870-1534)
ProcessListing ==
  /\ pc = "listing"
  /\ lindex <= Len(businessesToProcess)
  /\ \E outcome \in {"ok", "error", "crash"}, page \in ListingPages, restartOk \in BOOLEAN :
       LET url == businessesToProcess[lindex]
       IN  /\ browser \notin openBrowsers => outcome # "ok"
           /\ IF outcome = "ok" /\ ~page.hasRealWebsite
              THEN /\ excelData' = Append(excelData, [Name |-> url, Website |-> page.cleanedWebsite])
                   /\ keptLog' = keptLog \cup {[industry |-> index, url |-> url]}
              ELSE UNCHANGED <<excelData, keptLog>>
           /\ lastListing' = IF outcome = "ok"
                             THEN [processed |-> TRUE, website |-> page.website,
                                   kept |-> ~page.hasRealWebsite]
                             ELSE NoListing
           /\ listingLog' = Append(listingLog, [url |-> url, outcome |-> outcome])
           /\ IF outcome = "crash"
              THEN /\ openBrowsers' = (openBrowsers \ {browser})
                                        \cup (IF restartOk THEN {FreshBrowser} ELSE {})
                   /\ browser' = IF restartOk THEN FreshBrowser ELSE browser
              ELSE UNCHANGED <<openBrowsers, browser>>
  /\ lindex' = lindex + 1
  /\ UNCHANGED <<variant, pc, orchestratorVars, results, written, workbook, exited, exitCode,
                 scrapeCalls, failedIndustries, classifierVars, consentVars, discoverVars, listingVars, rotationVars, expandVars>>

\* end of the listing loop and the return value (1536-1590)
ScrapeReturn ==
  /\ pc = "listing"
  /\ lindex > Len(businessesToProcess)
  /\ industryResult' =
       [null |-> FALSE, data |-> excelData, browser |-> browser,
        timing |-> [industry |-> index,
                    totalBusinessesFound |-> Len(results),
                    businessesProcessed |-> Len(businessesToProcess),
                    businessesKept |-> Len(excelData),
                    businessesFiltered |-> Len(businessesToProcess) - Len(excelData),
                    error |-> "none"]]
  /\ browser' = NoBrowser
  /\ results' = <<>>
  /\ excelData' = <<>>
  /\ lindex' = 0
  /\ lastListing' = NoListing
  /\ listingLog' = <<>>
  /\ pc' = "retryCheck"
  /\ UNCHANGED <<variant, index, allResults, timingData, sharedBrowser, businessesProcessed,
                 industryRetries, thrown, processVars, scrapeCalls, failedIndustries, keptLog,
                 classifierVars, consentVars, discoverVars, listingVars, rotationVars, expandVars>>

\* the retry decision with its test on the number of listings found
RetryCheck_onFound ==
  /\ pc = "retryCheck"
  /\ IF ~industryResult.null /\ industryResult.timing.totalBusinessesFound > 0
     THEN pc' = "afterRetries" /\ UNCHANGED industryRetries
     ELSE IF industryRetries < maxIndustryRetries - 1
     THEN pc' = "retryLoop" /\ industryRetries' = industryRetries + 1
     ELSE pc' = "afterRetries" /\ UNCHANGED industryRetries
  /\ UNCHANGED <<variant, index, allResults, timingData, sharedBrowser, businessesProcessed,
                 industryResult, thrown, scrapeVars, processVars, historyVars, classifierVars, consentVars, discoverVars, listingVars, rotationVars, expandVars>>

\* the retry decision after a normal return (1653-1665)
RetryCheck ==
  /\ pc = "retryCheck"
  /\ IF ~industryResult.null /\ Len(industryResult.data) > 0
     THEN pc' = "afterRetries" /\ UNCHANGED industryRetries
     ELSE IF industryRetries < maxIndustryRetries - 1
     THEN pc' = "retryLoop" /\ industryRetries' = industryRetries + 1
     ELSE pc' = "afterRetries" /\ UNCHANGED industryRetries
  /\ UNCHANGED <<variant, index, allResults, timingData, sharedBrowser, businessesProcessed,
                 industryResult, thrown, scrapeVars, processVars, historyVars, classifierVars, consentVars, discoverVars, listingVars, rotationVars, expandVars>>

\* the catch of the retry loop without its `industryRetries++`
RetryCatch_noIncrement ==
  /\ pc = "retryCatch"
  /\ industryRetries' = industryRetries
  /\ LET isBlockingError == thrown = "blocking"
     IN  IF isBlockingError /\ industryRetries' < maxIndustryRetries
         THEN pc' = "retryLoop" /\ thrown' = "none" /\ UNCHANGED failedIndustries
         ELSE IF industryRetries' >= maxIndustryRetries
         THEN /\ pc' = "outerCatch"
              /\ UNCHANGED thrown
              /\ failedIndustries' = failedIndustries \cup {[industry |-> index, error |-> thrown]}
         ELSE pc' = "retryLoop" /\ thrown' = "none" /\ UNCHANGED failedIndustries
  /\ UNCHANGED <<variant, index, allResults, timingData, sharedBrowser, businessesProcessed,
                 industryResult, scrapeVars, processVars,
                 scrapeCalls, keptLog, lastListing, listingLog, classifierVars, consentVars, discoverVars, listingVars, rotationVars, expandVars>>

\* the catch of the retry loop (1666-1703)
RetryCatch ==
  /\ pc = "retryCatch"
  /\ industryRetries' = industryRetries + 1
  /\ LET isBlockingError == thrown = "blocking"
     IN  IF isBlockingError /\ industryRetries' < maxIndustryRetries
         THEN pc' = "retryLoop" /\ thrown' = "none" /\ UNCHANGED failedIndustries
         ELSE IF industryRetries' >= maxIndustryRetries
         THEN /\ pc' = "outerCatch"
              /\ UNCHANGED thrown
              /\ failedIndustries' = failedIndustries \cup {[industry |-> index, error |-> thrown]}
         ELSE pc' = "retryLoop" /\ thrown' = "none" /\ UNCHANGED failedIndustries
  /\ UNCHANGED <<variant, index, allResults, timingData, sharedBrowser, businessesProcessed,
                 industryResult, scrapeVars, processVars,
                 scrapeCalls, keptLog, lastListing, listingLog, classifierVars, consentVars, discoverVars, listingVars, rotationVars, expandVars>>

\* no results after the retries: error entry, close the shared browser,
\* throw (1706-1739)
IndustryNoResults ==
  /\ pc = "afterRetries"
  /\ industryResult.null \/ Len(industryResult.data) = 0
  /\ timingData' = Append(timingData, ErrorTiming(index, "noresults"))
  /\ openBrowsers' = openBrowsers \ {sharedBrowser}
  /\ failedIndustries' = failedIndustries \cup {[industry |-> index, error |-> "noresults"]}
  /\ thrown' = "noresults"
  /\ pc' = "outerCatch"
  /\ UNCHANGED <<variant, index, allResults, sharedBrowser, businessesProcessed,
                 industryRetries, industryResult, scrapeVars, written, workbook,
                 exited, exitCode, scrapeCalls, keptLog, lastListing, listingLog, classifierVars, consentVars, discoverVars, listingVars, rotationVars, expandVars>>

\* the industry produced records: adopt the browser, aggregate (1741-1766)
IndustrySuccess ==
  /\ pc = "afterRetries"
  /\ ~(industryResult.null \/ Len(industryResult.data) = 0)
  /\ sharedBrowser' = IF industryResult.browser # NoBrowser
                      THEN industryResult.browser ELSE sharedBrowser
  /\ allResults' = allResults \o WithIndustry(industryResult.data, index)
  /\ businessesProcessed' = businessesProcessed + Len(industryResult.data)
  /\ timingData' = Append(timingData, industryResult.timing)
  /\ index' = index + 1
  /\ pc' = "industryStart"
  /\ UNCHANGED <<variant, industryRetries, industryResult, thrown, scrapeVars,
                 processVars, historyVars, classifierVars, consentVars, discoverVars, listingVars, rotationVars, expandVars>>

\* the catch around one industry: error entry, go on with the next industry
\* (1767-1798)
OuterCatch ==
  /\ pc = "outerCatch"
  /\ timingData' = Append(timingData, ErrorTiming(index, thrown))
  /\ thrown' = "none"
  /\ index' = index + 1
  /\ pc' = "industryStart"
  /\ UNCHANGED <<variant, allResults, sharedBrowser, businessesProcessed, industryRetries,
                 industryResult, scrapeVars, processVars, historyVars, classifierVars, consentVars, discoverVars, listingVars, rotationVars, expandVars>>

\* close the shared browser after the loop (1801-1808)
CloseShared ==
  /\ pc = "closeShared"
  /\ openBrowsers' = openBrowsers \ {sharedBrowser}
  /\ pc' = "write"
  /\ UNCHANGED <<variant, orchestratorVars, scrapeVars, written, workbook,
                 exited, exitCode, historyVars, classifierVars, consentVars, discoverVars, listingVars, rotationVars, expandVars>>

\* write the combined workbook (1889-1917); the promise of
\* processAllIndustries then resolves, or rejects and the entry point calls
\* process.exit(1) (1922-1929).  After a resolved run the process ends, with
\* status 0, once nothing keeps it alive: a browser left open does.
WriteWorkbook ==
  /\ pc = "write"
  /\ \E outcome \in WriteOutcomes :
       IF WriteSucceeds(outcome)
       THEN /\ written' = TRUE
            /\ workbook' = allResults
            /\ exited' = (openBrowsers = {})
            /\ exitCode' = 0
       ELSE /\ exited' = TRUE
            /\ exitCode' = 1
            /\ UNCHANGED <<written, workbook>>
  /\ pc' = "settled"
  /\ UNCHANGED <<variant, orchestratorVars, scrapeVars, openBrowsers,
                 historyVars, classifierVars, consentVars, discoverVars, listingVars, rotationVars, expandVars>>

\* single-run variant: launch and open the search page (98-186); a failed
\* launch or navigation rejects the promise and the entry point exits 1
SingleLaunch ==
  /\ pc = "singleLaunch"
  /\ \E launchOk \in BOOLEAN, navOk \in BOOLEAN :
       /\ IF launchOk
          THEN /\ openBrowsers' = openBrowsers \cup {FreshBrowser}
               /\ browser' = FreshBrowser
          ELSE UNCHANGED <<openBrowsers, browser>>
       /\ IF launchOk /\ navOk
          THEN pc' = "singleDiscover" /\ UNCHANGED <<exited, exitCode>>
          ELSE pc' = "settled" /\ exited' = TRUE /\ exitCode' = 1
  /\ UNCHANGED <<variant, orchestratorVars, results, excelData, lindex, written, workbook,
                 historyVars, classifierVars, consentVars, discoverVars, listingVars, rotationVars, expandVars>>

\* single-run variant: the scroll loop (188-308)
SingleDiscover ==
  /\ pc = "singleDiscover"
  /\ results' \in DiscoverOutcomes
  /\ excelData' = <<>>
  /\ lindex' = 1
  /\ pc' = "singleListing"
  /\ UNCHANGED <<variant, orchestratorVars, browser, processVars, historyVars, classifierVars, consentVars, discoverVars, listingVars, rotationVars, expandVars>>

\* single-run variant: one iteration of the listing loop (310-760)
SingleProcessListing ==
  /\ pc = "singleListing"
  /\ lindex <= Len(results)
  /\ \E outcome \in {"ok", "error"}, page \in ListingPages :
       LET url == results[lindex]
       IN  /\ IF outcome = "ok" /\ ~page.hasRealWebsite
              THEN /\ excelData' = Append(excelData, [Name |-> url, Website |-> page.cleanedWebsite])
                   /\ keptLog' = keptLog \cup {[industry |-> index, url |-> url]}
              ELSE UNCHANGED <<excelData, keptLog>>
           /\ lastListing' = IF outcome = "ok"
                             THEN [processed |-> TRUE, website |-> page.website,
                                   kept |-> ~page.hasRealWebsite]
                             ELSE NoListing
           /\ listingLog' = Append(listingLog, [url |-> url, outcome |-> outcome])
  /\ lindex' = lindex + 1
  /\ UNCHANGED <<variant, pc, orchestratorVars, browser, results, processVars,
                 scrapeCalls, failedIndustries, classifierVars, consentVars, discoverVars, listingVars, rotationVars, expandVars>>

\* single-run variant: close the browser, write the workbook, end (772-816)
SingleFinish ==
  /\ pc = "singleListing"
  /\ lindex > Len(results)
  /\ openBrowsers' = openBrowsers \ {browser}
  /\ \E outcome \in WriteOutcomes :
       IF WriteSucceeds(outcome)
       THEN written' = TRUE /\ workbook' = excelData /\ exitCode' = 0
       ELSE exitCode' = 1 /\ UNCHANGED <<written, workbook>>
  /\ exited' = TRUE
  /\ pc' = "settled"
  /\ UNCHANGED <<variant, orchestratorVars, scrapeVars, historyVars, classifierVars, consentVars, discoverVars, listingVars, rotationVars, expandVars>>

Next ==
  \/ IndustryStart
  \/ RetryLoop
  \/ ScrapeStart
  \/ Discover
  \/ ProcessListing
  \/ ScrapeReturn
  \/ RetryCheck
  \/ RetryCatch
  \/ IndustryNoResults
  \/ IndustrySuccess
  \/ OuterCatch
  \/ CloseShared
  \/ WriteWorkbook
  \/ SingleLaunch
  \/ SingleDiscover
  \/ SingleProcessListing
  \/ SingleFinish

Spec == ScraperInit /\ [][Next]_vars

(***************************************************************************)
(* Enrichment pass: expandExcelWithContactPersons (expand.js).             *)
(* TEST_LIMIT is null there, so businessesToProcess is the data array      *)
(* itself.  The main flow gives up control only where it awaits a timer or *)
(* the browser: the lookup, the rate-limit delay and browser.close; a      *)
(* signal handler starts only at such a point.  saveProgress awaits        *)
(* nothing, so a call of it runs to its end without interleaving.          *)
(***************************************************************************)
\* a cell the sheet does not have: the property is undefined
Undefined == "undefined"
\* the sentinel 'Not found'
NOT_FOUND == "Not found"

Names == {"Bakeriet AS", "Frisor AS"}
ContactPersons == {"Kari Nordmann"}
BusinessPhones == {"73 50 00 00"}

\* the rows xlsx.utils.sheet_to_json can return
SheetRows ==
  [Name : Names,
   Contact_Person : {Undefined, NOT_FOUND} \cup ContactPersons,
   Business_Phone : {Undefined, NOT_FOUND} \cup BusinessPhones]

Sheets == UNION { [1..n -> SheetRows] : n \in 1..MaxRecords }

\* the column check of lines 565-585: when the first row lacks the column,
\* every row without a value gets the sentinel
AddColumns(rows) ==
  LET hasContactPersonColumn == rows[1].Contact_Person # Undefined
      hasBusinessPhoneColumn == rows[1].Business_Phone # Undefined
  IN  [i \in 1..Len(rows) |->
        [Name |-> rows[i].Name,
         Contact_Person |-> IF ~hasContactPersonColumn /\ rows[i].Contact_Person = Undefined
                            THEN NOT_FOUND ELSE rows[i].Contact_Person,
         Business_Phone |-> IF ~hasBusinessPhoneColumn /\ rows[i].Business_Phone = Undefined
                            THEN NOT_FOUND ELSE rows[i].Business_Phone]]

\* the data array when the loop starts
LoadedData == { AddColumns(rows) : rows \in Sheets }

\* what scrapeProffContactPerson returns, as the caller reads it: the string
\* 'Not found' of lines 138 and 142 has neither property
StringNotFound == [contactPerson |-> Undefined, businessPhone |-> Undefined]

\* the object of lines 500-506
ObjectNotFound == [contactPerson |-> NOT_FOUND, businessPhone |-> NOT_FOUND]

LookupResults ==
  {StringNotFound}
    \cup [contactPerson : {NOT_FOUND} \cup ContactPersons,
          businessPhone : {NOT_FOUND} \cup BusinessPhones]

\* the results left to a lookup whose browser has been closed
FailedLookups == {StringNotFound, ObjectNotFound}

\* shouldSkip with the test on Business Phone left out
shouldSkip_contactOnly(business) ==
  business.Contact_Person \notin {Undefined, NOT_FOUND}

\* shouldSkip of lines 786-791
shouldSkip(business) ==
  /\ business.Contact_Person \notin {Undefined, NOT_FOUND}
  /\ business.Business_Phone \notin {Undefined, NOT_FOUND}

\* data.findIndex(b => b.Name === businessName)
findIndex(rows, businessName) ==
  CHOOSE i \in 1..Len(rows) :
    /\ rows[i].Name = businessName
    /\ \A j \in 1..(i - 1) : rows[j].Name # businessName

\* lines 805-813: the result is stored in the business of the loop and in
\* the first row of data that has its name
StoreResult(rows, at, result) ==
  LET dataIndex == findIndex(rows, rows[at].Name)
  IN  [j \in 1..Len(rows) |->
        IF j = at \/ j = dataIndex
        THEN [Name |-> rows[j].Name,
              Contact_Person |-> result.contactPerson,
              Business_Phone |-> result.businessPhone]
        ELSE rows[j]]

\* outcomes of the two xlsx.writeFile calls of saveProgress: both succeed,
\* the first succeeds and the timestamped copy throws, the first throws
SaveOutcomes == {"ok", "copyFails", "fail"}

\* the progress workbook after a saveProgress call that skips its write
saveProgress_skipWrite(file, rows, outcome) == file

\* the progress workbook after a saveProgress call (630-676)
saveProgress(file, rows, outcome) ==
  IF outcome = "fail" THEN file ELSE [written |-> TRUE, rows |-> rows]

\* saveProgress taken to return null whatever it wrote
SavedFile_never(outcome) == FALSE

\* saveProgress returns the filename, or null when a write threw
SavedFile(outcome) == outcome = "ok"

\* the call wrote the progress workbook
WroteProgress(outcome) == outcome # "fail"

ExpandInit ==
  /\ ClassifierOff
  /\ ConsentOff
  /\ DiscoverOff
  /\ ListingOff
  /\ RotationOff
  /\ ScraperOff
  /\ e_pc = "loop"
  /\ e_index = 1
  /\ data \in LoadedData
  /\ loaded = data
  /\ updatedCount = 0
  /\ foundCount = 0
  /\ notFoundCount = 0
  /\ skippedCount = 0
  /\ shouldStop = FALSE
  /\ isShuttingDown = FALSE
  /\ h_pc = "idle"
  /\ browserOpen = TRUE
  /\ progressFile = NoFile
  /\ emergencyFile = NoFile
  /\ outputFile = NoFile
  /\ e_exited = FALSE
  /\ e_exitCode = 0
  /\ signals = 0
  /\ atSignal = NoSignal
  /\ loopSaves = 0
  /\ lastSaveWrote = FALSE
  /\ mainWritesAfterSignal = 0

\* head of one iteration: the stop check, the skip decision (774-799)
LoopHead ==
  /\ ~e_exited
  /\ e_pc = "loop"
  /\ IF e_index > Len(data) \/ shouldStop
     THEN e_pc' = "postLoop" /\ UNCHANGED <<e_index, skippedCount>>
     ELSE IF shouldSkip(data[e_index])
     THEN e_index' = e_index + 1 /\ skippedCount' = skippedCount + 1 /\ UNCHANGED e_pc
     ELSE e_pc' = "lookup" /\ UNCHANGED <<e_index, skippedCount>>
  /\ UNCHANGED <<data, updatedCount, foundCount, notFoundCount, shouldStop, isShuttingDown,
                 h_pc, browserOpen, expandFileVars, e_exited, e_exitCode, expandHistoryVars,
                 classifierVars, consentVars, scraperVars, discoverVars, listingVars, rotationVars>>

\* the lookup returns: store the result, count, save progress, then start
\* the delay or leave the iteration (801-845)
LookupReturns ==
  /\ ~e_exited
  /\ e_pc = "lookup"
  /\ \E result \in LookupResults, outcome \in SaveOutcomes :
       /\ ~browserOpen => result \in FailedLookups
       /\ data' = StoreResult(data, e_index, result)
       /\ foundCount' = IF result.contactPerson # NOT_FOUND THEN foundCount + 1 ELSE foundCount
       /\ notFoundCount' = IF result.contactPerson # NOT_FOUND
                           THEN notFoundCount ELSE notFoundCount + 1
       /\ updatedCount' = updatedCount + 1
       /\ progressFile' = saveProgress(progressFile, data', outcome)
       /\ lastSaveWrote' = WroteProgress(outcome)
  /\ loopSaves' = loopSaves + 1
  /\ mainWritesAfterSignal' = IF atSignal.received
                              THEN mainWritesAfterSignal + 1 ELSE mainWritesAfterSignal
  /\ IF e_index < Len(data) /\ ~shouldStop
     THEN e_pc' = "delay" /\ UNCHANGED e_index
     ELSE IF shouldStop
     THEN e_pc' = "postLoop" /\ UNCHANGED e_index
     ELSE e_pc' = "loop" /\ e_index' = e_index + 1
  /\ UNCHANGED <<skippedCount, shouldStop, isShuttingDown, h_pc, browserOpen,
                 emergencyFile, outputFile, e_exited, e_exitCode, loaded, signals, atSignal,
                 classifierVars, consentVars, scraperVars, discoverVars, listingVars, rotationVars>>

\* the rate-limit delay is over; the stop check that ends the iteration
\* (828-845)
DelayEnds ==
  /\ ~e_exited
  /\ e_pc = "delay"
  /\ IF shouldStop
     THEN e_pc' = "postLoop" /\ UNCHANGED e_index
     ELSE e_pc' = "loop" /\ e_index' = e_index + 1
  /\ UNCHANGED <<data, updatedCount, foundCount, notFoundCount, skippedCount, shouldStop,
                 isShuttingDown, h_pc, browserOpen, expandFileVars, e_exited, e_exitCode,
                 expandHistoryVars, classifierVars, consentVars, scraperVars, discoverVars, listingVars, rotationVars>>

\* the final save, and the start of browser.close (848-857); both are left
\* out when shouldStop is set
FinalSave ==
  /\ ~e_exited
  /\ e_pc = "postLoop"
  /\ IF shouldStop
     THEN /\ e_pc' = "writeBack"
          /\ UNCHANGED <<progressFile, lastSaveWrote>>
     ELSE /\ \E outcome \in SaveOutcomes :
               /\ progressFile' = saveProgress(progressFile, data, outcome)
               /\ lastSaveWrote' = WroteProgress(outcome)
          /\ e_pc' = "closing"
  /\ UNCHANGED <<e_index, data, updatedCount, foundCount, notFoundCount, skippedCount,
                 shouldStop, isShuttingDown, h_pc, browserOpen, emergencyFile, outputFile,
                 e_exited, e_exitCode, loaded, signals, atSignal, loopSaves,
                 mainWritesAfterSignal, classifierVars, consentVars, scraperVars, discoverVars, listingVars, rotationVars>>

\* browser.close of the main flow has completed (856)
MainBrowserClosed ==
  /\ ~e_exited
  /\ e_pc = "closing"
  /\ browserOpen' = FALSE
  /\ e_pc' = "writeBack"
  /\ UNCHANGED <<e_index, data, updatedCount, foundCount, notFoundCount, skippedCount,
                 shouldStop, isShuttingDown, h_pc, expandFileVars, e_exited, e_exitCode,
                 expandHistoryVars, classifierVars, consentVars, scraperVars, discoverVars, listingVars, rotationVars>>

\* write the data back to the input workbook (859-884); the promise then
\* resolves, or rejects and the entry point calls process.exit(1) (917-924).
\* A resolved run with no shutdown under way has nothing left to wait for
\* and ends with status 0.
WriteBack ==
  /\ ~e_exited
  /\ e_pc = "writeBack"
  /\ \E outcome \in WriteOutcomes :
       /\ outputFile' = IF outcome = "ok" THEN [written |-> TRUE, rows |-> data] ELSE outputFile
       /\ IF WriteSucceeds(outcome)
          THEN /\ e_exited' = (h_pc = "idle")
               /\ UNCHANGED e_exitCode
          ELSE /\ e_exited' = TRUE
               /\ e_exitCode' = 1
  /\ mainWritesAfterSignal' = IF atSignal.received
                              THEN mainWritesAfterSignal + 1 ELSE mainWritesAfterSignal
  /\ e_pc' = "done"
  /\ UNCHANGED <<e_index, data, updatedCount, foundCount, notFoundCount, skippedCount,
                 shouldStop, isShuttingDown, h_pc, browserOpen, progressFile, emergencyFile,
                 loaded, signals, atSignal, loopSaves, lastSaveWrote,
                 classifierVars, consentVars, scraperVars, discoverVars, listingVars, rotationVars>>

\* shutdownHandler without its isShuttingDown test: every signal runs the
\* whole handler
Signal_noGuard ==
  /\ ~e_exited
  /\ e_pc \in {"lookup", "delay", "closing", "done"}
  /\ signals < MaxSignals
  /\ signals' = signals + 1
  /\ IF FALSE
     THEN UNCHANGED <<isShuttingDown, shouldStop, progressFile, emergencyFile, h_pc,
                      atSignal, lastSaveWrote>>
     ELSE /\ isShuttingDown' = TRUE
          /\ shouldStop' = TRUE
          /\ \E outcome \in SaveOutcomes, emergencyOk \in BOOLEAN :
               /\ progressFile' = saveProgress(progressFile, data, outcome)
               /\ lastSaveWrote' = WroteProgress(outcome)
               /\ emergencyFile' = IF ~SavedFile(outcome) /\ emergencyOk
                                   THEN [written |-> TRUE, rows |-> data] ELSE emergencyFile
               /\ atSignal' = [received |-> TRUE,
                               k        |-> IF e_pc = "lookup" THEN e_index - 1
                                            ELSE IF e_pc = "delay" THEN e_index
                                            ELSE Len(data),
                               data     |-> data,
                               saved    |-> WroteProgress(outcome),
                               attempts |-> 1,
                               outcome  |-> outcome]
          /\ h_pc' = "closing"
  /\ UNCHANGED <<e_pc, e_index, data, updatedCount, foundCount, notFoundCount, skippedCount,
                 browserOpen, outputFile, e_exited, e_exitCode, loaded, loopSaves,
                 mainWritesAfterSignal, classifierVars, consentVars, scraperVars, discoverVars, listingVars, rotationVars>>

\* shutdownHandler without `shouldStop = true`
Signal_noStop ==
  /\ ~e_exited
  /\ e_pc \in {"lookup", "delay", "closing", "done"}
  /\ signals < MaxSignals
  /\ signals' = signals + 1
  /\ IF isShuttingDown
     THEN UNCHANGED <<isShuttingDown, shouldStop, progressFile, emergencyFile, h_pc,
                      atSignal, lastSaveWrote>>
     ELSE /\ isShuttingDown' = TRUE
          /\ shouldStop' = shouldStop
          /\ \E outcome \in SaveOutcomes, emergencyOk \in BOOLEAN :
               /\ progressFile' = saveProgress(progressFile, data, outcome)
               /\ lastSaveWrote' = WroteProgress(outcome)
               /\ emergencyFile' = IF ~SavedFile(outcome) /\ emergencyOk
                                   THEN [written |-> TRUE, rows |-> data] ELSE emergencyFile
               /\ atSignal' = [received |-> TRUE,
                               k        |-> IF e_pc = "lookup" THEN e_index - 1
                                            ELSE IF e_pc = "delay" THEN e_index
                                            ELSE Len(data),
                               data     |-> data,
                               saved    |-> WroteProgress(outcome),
                               attempts |-> 1,
                               outcome  |-> outcome]
          /\ h_pc' = "closing"
  /\ UNCHANGED <<e_pc, e_index, data, updatedCount, foundCount, notFoundCount, skippedCount,
                 browserOpen, outputFile, e_exited, e_exitCode, loaded, loopSaves,
                 mainWritesAfterSignal, classifierVars, consentVars, scraperVars, discoverVars, listingVars, rotationVars>>

\* SIGINT or SIGTERM is delivered while the main flow waits: shutdownHandler
\* up to its call of browser.close (680-733, 754-765)
Signal ==
  /\ ~e_exited
  /\ e_pc \in {"lookup", "delay", "closing", "done"}
  /\ signals < MaxSignals
  /\ signals' = signals + 1
  /\ IF isShuttingDown
     THEN UNCHANGED <<isShuttingDown, shouldStop, progressFile, emergencyFile, h_pc,
                      atSignal, lastSaveWrote>>
     ELSE /\ isShuttingDown' = TRUE
          /\ shouldStop' = TRUE
          /\ \E outcome \in SaveOutcomes, emergencyOk \in BOOLEAN :
               /\ progressFile' = saveProgress(progressFile, data, outcome)
               /\ lastSaveWrote' = WroteProgress(outcome)
               /\ emergencyFile' = IF ~SavedFile(outcome) /\ emergencyOk
                                   THEN [written |-> TRUE, rows |-> data] ELSE emergencyFile
               /\ atSignal' = [received |-> TRUE,
                               k        |-> IF e_pc = "lookup" THEN e_index - 1
                                            ELSE IF e_pc = "delay" THEN e_index
                                            ELSE Len(data),
                               data     |-> data,
                               saved    |-> WroteProgress(outcome),
                               attempts |-> 1,
                               outcome  |-> outcome]
          /\ h_pc' = "closing"
  /\ UNCHANGED <<e_pc, e_index, data, updatedCount, foundCount, notFoundCount, skippedCount,
                 browserOpen, outputFile, e_exited, e_exitCode, loaded, loopSaves,
                 mainWritesAfterSignal, classifierVars, consentVars, scraperVars, discoverVars, listingVars, rotationVars>>

\* browser.close of the handler has completed; the exit timer is set
\* (730-750)
HandlerBrowserClosed ==
  /\ ~e_exited
  /\ h_pc = "closing"
  /\ browserOpen' = FALSE
  /\ h_pc' = "timer"
  /\ UNCHANGED <<e_pc, e_index, data, updatedCount, foundCount, notFoundCount, skippedCount,
                 shouldStop, isShuttingDown, expandFileVars, e_exited, e_exitCode,
                 expandHistoryVars, classifierVars, consentVars, scraperVars, discoverVars, listingVars, rotationVars>>

\* the timer of the handler fires: process.exit(0) (748-750)
ExitTimer ==
  /\ ~e_exited
  /\ h_pc = "timer"
  /\ e_exited' = TRUE
  /\ e_exitCode' = 0
  /\ UNCHANGED <<expandStateVars, expandFileVars, expandHistoryVars,
                 classifierVars, consentVars, scraperVars, discoverVars, listingVars, rotationVars>>

ExpandNext ==
  \/ LoopHead
  \/ LookupReturns
  \/ DelayEnds
  \/ FinalSave
  \/ MainBrowserClosed
  \/ WriteBack
  \/ Signal
  \/ HandlerBrowserClosed
  \/ ExitTimer

SpecExpand == ExpandInit /\ [][ExpandNext]_vars

(***************************************************************************)
(* The scroll loop of scrapeGoogleMaps (scraper.js 654-846, single-run     *)
(* variant 188-293): listing discovery                                     *)
(***************************************************************************)
\* the href attributes of the anchors matching a[href*="/maps/place/"]: a
\* place is linked by a relative or by an absolute href
Hrefs == [absolute : BOOLEAN, place : 1..MaxPlaces]

\* `href.startsWith('http') ? href : 'https://www.google.com' + href`: both
\* forms give the absolute URL of the place, which its number stands for
FullUrl(href) == href.place

\* the anchors the seven selectors of one DOM query match, in the order met
DomQueries == UNION { [1..n -> Hrefs] : n \in 0..MaxLinks }

\* Set.prototype.has / Array.prototype.includes
Has(urls, url) == \E i \in 1..Len(urls) : urls[i] = url

\* the page.evaluate body: `if (!urls.includes(fullUrl)) urls.push(fullUrl)`
\* over the matched anchors
RECURSIVE CollectUrls(_, _)
CollectUrls(links, urls) ==
  IF links = <<>> THEN urls
  ELSE LET fullUrl == FullUrl(Head(links))
       IN  CollectUrls(Tail(links), IF Has(urls, fullUrl) THEN urls ELSE Append(urls, fullUrl))

\* newUrls = currentUrls.filter(url => !allBusinessUrls.has(url))
NewUrls(currentUrls, collected) == SelectSeq(currentUrls, LAMBDA url : ~Has(collected, url))

\* newUrls.forEach(url => allBusinessUrls.add(url)): Set.add keeps the first
\* insertion of a value
RECURSIVE AddAll(_, _)
AddAll(collected, urls) ==
  IF urls = <<>> THEN collected
  ELSE AddAll(IF Has(collected, Head(urls)) THEN collected ELSE Append(collected, Head(urls)),
              Tail(urls))

\* collecting into an array: every queried URL is appended
Accumulate_push(collected, currentUrls) == collected \o currentUrls

\* allBusinessUrls after the URLs of one query were added
Accumulate(collected, currentUrls) == AddAll(collected, NewUrls(currentUrls, collected))

\* maxPageDowns: `TEST_LIMIT ? 4 : 40` in scraper.js, 5 in the single-run
\* variant
maxPageDowns(v) == IF v = "single" THEN 5 ELSE IF TEST_LIMIT # 0 THEN 4 ELSE 40

\* saveDebugInfo returns, or throws out of the fs.mkdirSync of its debug
\* directory, which precedes its try block (scraper.js 41-43)
SaveDebugOutcomes == {"saved", "threw"}

DiscoverInit ==
  /\ ClassifierOff
  /\ ConsentOff
  /\ ScraperOff
  /\ ListingOff
  /\ RotationOff
  /\ ExpandOff
  /\ d_variant \in {"orchestrator", "single"}
  /\ d_pc = "scroll"
  /\ pageDownAttempts = 0
  /\ allBusinessUrls = <<>>
  /\ previousUrlCount = 0
  /\ noNewResultsCount = 0
  /\ d_results = <<>>
  /\ attemptsStarted = 0
  /\ lastAttempt = NoAttempt

\* a scroll exception after which the URLs collected so far are dropped
ScrollFails_discards ==
  /\ d_pc = "scroll"
  /\ pageDownAttempts < maxPageDowns(d_variant)
  /\ attemptsStarted' = attemptsStarted + 1
  /\ lastAttempt' = [outcome |-> "scrollError", before |-> allBusinessUrls, currentUrls |-> <<>>,
                     counterBefore |-> noNewResultsCount, escalated |-> FALSE,
                     pressThrew |-> FALSE]
  /\ allBusinessUrls' = <<>>
  /\ d_pc' = "convert"
  /\ UNCHANGED <<d_variant, pageDownAttempts, previousUrlCount,
                 noNewResultsCount, d_results, classifierVars, consentVars, scraperVars, listingVars, rotationVars, expandVars>>

\* an iteration in which a mouse or keyboard call throws: these calls are
\* outside the inner try, so the catch around the loop ends the scrolling
ScrollFails ==
  /\ d_pc = "scroll"
  /\ pageDownAttempts < maxPageDowns(d_variant)
  /\ attemptsStarted' = attemptsStarted + 1
  /\ lastAttempt' = [outcome |-> "scrollError", before |-> allBusinessUrls, currentUrls |-> <<>>,
                     counterBefore |-> noNewResultsCount, escalated |-> FALSE,
                     pressThrew |-> FALSE]
  /\ d_pc' = "convert"
  /\ UNCHANGED <<d_variant, pageDownAttempts, allBusinessUrls, previousUrlCount,
                 noNewResultsCount, d_results, classifierVars, consentVars, scraperVars, listingVars, rotationVars, expandVars>>

\* a rejected query that ends the iteration before its `pageDownAttempts++`
QueryFails_notCounted ==
  /\ d_pc = "scroll"
  /\ pageDownAttempts < maxPageDowns(d_variant)
  /\ attemptsStarted' = attemptsStarted + 1
  /\ lastAttempt' = [outcome |-> "queryError", before |-> allBusinessUrls, currentUrls |-> <<>>,
                     counterBefore |-> noNewResultsCount, escalated |-> FALSE,
                     pressThrew |-> FALSE]
  /\ pageDownAttempts' = pageDownAttempts
  /\ UNCHANGED <<d_pc, d_variant, allBusinessUrls, previousUrlCount, noNewResultsCount,
                 d_results, classifierVars, consentVars, scraperVars, listingVars, rotationVars, expandVars>>

\* a rejected query counted as an iteration that found nothing new
QueryFails_stagnates ==
  /\ d_pc = "scroll"
  /\ pageDownAttempts < maxPageDowns(d_variant)
  /\ attemptsStarted' = attemptsStarted + 1
  /\ lastAttempt' = [outcome |-> "queryError", before |-> allBusinessUrls, currentUrls |-> <<>>,
                     counterBefore |-> noNewResultsCount, escalated |-> FALSE,
                     pressThrew |-> FALSE]
  /\ noNewResultsCount' = noNewResultsCount + 1
  /\ IF noNewResultsCount' >= 3
     THEN d_pc' = "convert" /\ UNCHANGED pageDownAttempts
     ELSE pageDownAttempts' = pageDownAttempts + 1 /\ UNCHANGED d_pc
  /\ UNCHANGED <<d_variant, allBusinessUrls, previousUrlCount,
                 d_results, classifierVars, consentVars, scraperVars, listingVars, rotationVars, expandVars>>

\* an iteration whose page.evaluate rejects: the inner catch logs it and
\* the iteration ends with pageDownAttempts++
QueryFails ==
  /\ d_pc = "scroll"
  /\ pageDownAttempts < maxPageDowns(d_variant)
  /\ attemptsStarted' = attemptsStarted + 1
  /\ lastAttempt' = [outcome |-> "queryError", before |-> allBusinessUrls, currentUrls |-> <<>>,
                     counterBefore |-> noNewResultsCount, escalated |-> FALSE,
                     pressThrew |-> FALSE]
  /\ pageDownAttempts' = pageDownAttempts + 1
  /\ UNCHANGED <<d_pc, d_variant, allBusinessUrls, previousUrlCount, noNewResultsCount,
                 d_results, classifierVars, consentVars, scraperVars, listingVars, rotationVars, expandVars>>

\* an iteration whose page.evaluate returns currentUrls (scraper.js 744-821,
\* single-run variant 217-284)
Collect ==
  /\ d_pc = "scroll"
  /\ pageDownAttempts < maxPageDowns(d_variant)
  /\ \E links \in DomQueries :
       LET currentUrls == CollectUrls(links, <<>>)
           collected   == Accumulate(allBusinessUrls, currentUrls)
           stagnant    == Len(collected) = previousUrlCount
           counter     == IF stagnant THEN noNewResultsCount + 1 ELSE 0
           stopping    == stagnant /\ counter >= 3
           \* the extra PageDown presses, made inside the try block of the query
           escalating  == stagnant /\ ~stopping /\ counter = 2
           \* only scraper.js saves debug info before the break
           debugs      == IF stopping /\ d_variant = "orchestrator"
                          THEN SaveDebugOutcomes ELSE {"saved"}
           presses     == IF escalating THEN {"ok", "throws"} ELSE {"ok"}
       IN  \E debug \in debugs, press \in presses :
             LET saveThrew == debug = "threw"
             IN  /\ allBusinessUrls' = collected
                 /\ noNewResultsCount' = counter
                 /\ attemptsStarted' = attemptsStarted + 1
                 /\ lastAttempt' = [outcome |-> "collected", before |-> allBusinessUrls,
                                    currentUrls |-> currentUrls,
                                    counterBefore |-> noNewResultsCount,
                                    escalated |-> escalating,
                                    pressThrew |-> (press = "throws")]
                 /\ IF stopping /\ ~saveThrew
                      THEN \* break
                           /\ d_pc' = "convert"
                           /\ UNCHANGED <<pageDownAttempts, previousUrlCount>>
                    ELSE IF saveThrew \/ press = "throws"
                      THEN \* the inner catch takes the exception: no break
                           /\ pageDownAttempts' = pageDownAttempts + 1
                           /\ UNCHANGED <<d_pc, previousUrlCount>>
                    ELSE /\ previousUrlCount' = Len(collected)
                         /\ pageDownAttempts' = pageDownAttempts + 1
                         /\ UNCHANGED d_pc
  /\ UNCHANGED <<d_variant, d_results, classifierVars, consentVars, scraperVars, listingVars, rotationVars, expandVars>>

\* the while condition fails: the attempts are used up
ScrollBudgetSpent ==
  /\ d_pc = "scroll"
  /\ pageDownAttempts >= maxPageDowns(d_variant)
  /\ d_pc' = "convert"
  /\ UNCHANGED <<d_variant, pageDownAttempts, allBusinessUrls, previousUrlCount,
                 noNewResultsCount, d_results, attemptsStarted, lastAttempt,
                 classifierVars, consentVars, scraperVars, listingVars, rotationVars, expandVars>>

\* results = Array.from(allBusinessUrls).map(url => ({ name, url }))
ConvertResults ==
  /\ d_pc = "convert"
  /\ d_results' = allBusinessUrls
  /\ d_pc' = "done"
  /\ UNCHANGED <<d_variant, pageDownAttempts, allBusinessUrls, previousUrlCount,
                 noNewResultsCount, attemptsStarted, lastAttempt,
                 classifierVars, consentVars, scraperVars, listingVars, rotationVars, expandVars>>

DiscoverNext ==
  \/ ScrollFails
  \/ QueryFails
  \/ Collect
  \/ ScrollBudgetSpent
  \/ ConvertResults

SpecDiscover == DiscoverInit /\ [][DiscoverNext]_vars

(***************************************************************************)
(* One iteration of the listing loop of scrapeGoogleMaps (scraper.js       *)
(* 870-1534): navigation, the extraction of each field, the keep/discard   *)
(* decision and the catch block                                            *)
(***************************************************************************)
S_businessName == <<"J","o","e","s"," ","B","a","k","e","r","y">>
S_address == <<"S","t","o","r","g","a","t","a"," ","1">>
S_phone == <<"+","4","7"," ","2","2"," ","3","3"," ","4","4"," ","5","5">>
\* the name the page.evaluate of the name extraction falls back to
UnknownBusiness == <<"U","n","k","n","o","w","n"," ","B","u","s","i","n","e","s","s">>
\* the JavaScript value null
Null == <<"null">>

\* the fields of a listing whose extraction the iteration is followed through
Fields == {"name", "address", "website", "phone", "rating", "hours", "priceLevel"}

\* what a field holds when nothing was extracted for it
Sentinel(field) == IF field = "name" THEN UnknownBusiness ELSE NotFound

\* what one selector of a field does: page.$ finds no element, the element
\* evaluates to a text, the element evaluates to null, or a call throws
SelectorOutcomes == {"absent", "text", "null", "throws"}

\* the address loop (1054-1084): a thrown selector is skipped, a text ends
\* the loop, null is assigned and the loop goes on
RECURSIVE AddressAfter(_, _)
AddressAfter(outcomes, address) ==
  IF outcomes = <<>> THEN address
  ELSE IF Head(outcomes) = "text" THEN S_address
  ELSE IF Head(outcomes) = "null" THEN AddressAfter(Tail(outcomes), Null)
  ELSE AddressAfter(Tail(outcomes), address)

\* the loops over phoneSelectors (1166-1253), ratingSelectors (1313-1328),
\* hoursSelectors (1339-1353) and priceSelectors (1363-1376), all of one
\* shape: the variable is assigned whatever the matched element evaluates
\* to, and only a truthy value other than 'Not found' ends the loop.  Null
\* stands for the falsy values an element evaluates to: null for the phone,
\* '' for the rating, undefined or '' for the hours and the price level
RECURSIVE CascadeAfter(_, _, _)
CascadeAfter(outcomes, value, text) ==
  IF outcomes = <<>> THEN value
  ELSE IF Head(outcomes) = "text" THEN text
  ELSE IF Head(outcomes) = "null" THEN CascadeAfter(Tail(outcomes), Null, text)
  ELSE CascadeAfter(Tail(outcomes), value, text)

\* `value || ''`
OrEmpty(value) == IF value \in {Null, EmptyString} THEN EmptyString ELSE value

\* error.message names a crash (Target closed, Session closed, Out of
\* Memory, ...) or does not
ErrorKinds == {"crash", "other"}

ListingInit ==
  /\ ClassifierOff
  /\ ConsentOff
  /\ ScraperOff
  /\ DiscoverOff
  /\ RotationOff
  /\ ExpandOff
  /\ l_pc = "navigate"
  /\ l_pageAt \in {"search", "place"}
  /\ l_businessName = Unassigned
  /\ l_address = Unassigned
  /\ l_website = Unassigned
  /\ l_phone = Unassigned
  /\ l_rating = Unassigned
  /\ l_hours = Unassigned
  /\ l_priceLevel = Unassigned
  /\ l_thrown = "none"
  /\ l_record = <<>>
  /\ l_restarted = FALSE
  /\ l_failed = {}
  /\ l_decided = FALSE
  /\ l_cascade = Unassigned
  /\ l_swept = "unreached"
  /\ l_blocked = FALSE

\* navigation to the listing (914-975).  A page.goto that throws (a
\* timeout, a network error) is taken by the inner catch (955-965), which
\* reads page.url(): the page is where it was, or already at the listing,
\* or at the browser's error page.  Only on a place page does the catch go
\* back and navigate again, and a throw there reaches the catch of the
\* iteration; on any other page it does nothing and the extraction follows
NavigateListing ==
  /\ l_pc = "navigate"
  /\ \E goto \in {"ok", "throws"}, landed \in {"stays", "listing", "error"},
        again \in {"ok", "throws"}, error \in ErrorKinds :
       LET at == IF landed = "stays" THEN l_pageAt ELSE landed
       IN  IF goto = "ok"
           THEN /\ l_pageAt' = "listing"
                /\ l_pc' = "name"
                /\ UNCHANGED <<l_thrown, l_failed>>
           ELSE IF at \in {"place", "listing"}
           THEN IF again = "ok"
                THEN /\ l_pageAt' = "listing"
                     /\ l_pc' = "name"
                     /\ UNCHANGED <<l_thrown, l_failed>>
                ELSE /\ l_pageAt' = at
                     /\ l_pc' = "catch"
                     /\ l_thrown' = error
                     /\ l_failed' = l_failed \cup {"navigation"}
           ELSE /\ l_pageAt' = at
                /\ l_pc' = "name"
                /\ l_failed' = l_failed \cup {"navigation"}
                /\ UNCHANGED l_thrown
  /\ UNCHANGED <<l_businessName, l_address, l_website, l_phone, l_rating, l_hours, l_priceLevel,
                 l_record, l_restarted, l_decided, l_cascade, l_swept, l_blocked,
                 classifierVars, consentVars, scraperVars, discoverVars, rotationVars, expandVars>>

\* businessName = await page.evaluate(...) (977-1038): no try block of its
\* own; inside the page, a name that no selector, the title or the URL gives
\* is 'Unknown Business'
ExtractName ==
  /\ l_pc = "name"
  /\ \E evaluation \in {"found", "missing", "throws"}, error \in ErrorKinds :
       IF evaluation = "throws"
       THEN /\ l_pc' = "catch"
            /\ l_thrown' = error
            /\ l_failed' = l_failed \cup {"name"}
            /\ UNCHANGED l_businessName
       ELSE /\ l_pc' = "address"
            /\ l_businessName' = IF evaluation = "found" THEN S_businessName ELSE UnknownBusiness
            /\ l_failed' = IF evaluation = "found" THEN l_failed ELSE l_failed \cup {"name"}
            /\ UNCHANGED l_thrown
  /\ UNCHANGED <<l_pageAt, l_address, l_website, l_phone, l_rating, l_hours, l_priceLevel,
                 l_record, l_restarted, l_decided, l_cascade, l_swept, l_blocked,
                 classifierVars, consentVars, scraperVars, discoverVars, rotationVars, expandVars>>

\* the address extraction (1042-1088)
ExtractAddress ==
  /\ l_pc = "address"
  /\ \E outcomes \in [1..MaxSelectors -> SelectorOutcomes] :
       /\ l_address' = AddressAfter(outcomes, NotFound)
       /\ l_failed' = IF \E k \in 1..MaxSelectors : outcomes[k] = "text"
                      THEN l_failed ELSE l_failed \cup {"address"}
  /\ l_pc' = "website"
  /\ UNCHANGED <<l_pageAt, l_businessName, l_website, l_phone, l_rating, l_hours, l_priceLevel,
                 l_thrown, l_record, l_restarted, l_decided, l_cascade, l_swept, l_blocked,
                 classifierVars, consentVars, scraperVars, discoverVars, rotationVars, expandVars>>

\* the website extraction (1091-1129): a selector that throws is skipped
ExtractWebsiteField ==
  /\ l_pc = "website"
  /\ \E links \in PageLinks, selectorsThrow \in BOOLEAN :
       /\ l_website' = IF selectorsThrow THEN NotFound ELSE ExtractWebsite(links)
       /\ l_failed' = IF l_website' = NotFound THEN l_failed \cup {"website"} ELSE l_failed
  /\ l_pc' = "phone"
  /\ UNCHANGED <<l_pageAt, l_businessName, l_address, l_phone, l_rating, l_hours, l_priceLevel,
                 l_thrown, l_record, l_restarted, l_decided, l_cascade, l_swept, l_blocked,
                 classifierVars, consentVars, scraperVars, discoverVars, rotationVars, expandVars>>

\* the phone extraction: the loop over phoneSelectors (1131-1257), then the
\* search of document.body.innerText (1259-1295), which is entered under
\* `phone === 'Not found'` and assigns phone only when it finds a number
ExtractPhone ==
  /\ l_pc = "phone"
  /\ \E outcomes \in [1..MaxSelectors -> SelectorOutcomes],
        sweep \in {"found", "none", "throws"} :
       LET cascaded == CascadeAfter(outcomes, NotFound, S_phone)
       IN  /\ l_cascade' = cascaded
           /\ IF cascaded = NotFound
              THEN /\ l_swept' = "ran"
                   /\ l_phone' = IF sweep = "found" THEN S_phone ELSE cascaded
              ELSE /\ l_swept' = "skipped"
                   /\ l_phone' = cascaded
           /\ l_failed' = IF l_phone' = S_phone THEN l_failed ELSE l_failed \cup {"phone"}
  /\ l_pc' = "details"
  /\ UNCHANGED <<l_pageAt, l_businessName, l_address, l_website, l_rating, l_hours, l_priceLevel,
                 l_thrown, l_record, l_restarted, l_decided, l_blocked,
                 classifierVars, consentVars, scraperVars, discoverVars, rotationVars, expandVars>>

\* rating, hours and price level (1297-1376)
ExtractDetails ==
  /\ l_pc = "details"
  /\ \E ratings \in [1..MaxSelectors -> SelectorOutcomes],
        opening \in [1..MaxSelectors -> SelectorOutcomes],
        prices \in [1..MaxSelectors -> SelectorOutcomes] :
       /\ l_rating' = CascadeAfter(ratings, NotFound, <<"4",",","5">>)
       /\ l_hours' = CascadeAfter(opening, NotFound, <<"0","9","-","1","7">>)
       /\ l_priceLevel' = CascadeAfter(prices, NotFound, <<"$","$">>)
       /\ l_failed' = l_failed
            \cup (IF \E k \in 1..MaxSelectors : ratings[k] = "text" THEN {} ELSE {"rating"})
            \cup (IF \E k \in 1..MaxSelectors : opening[k] = "text" THEN {} ELSE {"hours"})
            \cup (IF \E k \in 1..MaxSelectors : prices[k] = "text" THEN {} ELSE {"priceLevel"})
  /\ l_pc' = "decide"
  /\ UNCHANGED <<l_pageAt, l_businessName, l_address, l_website, l_phone,
                 l_thrown, l_record, l_restarted, l_decided, l_cascade, l_swept, l_blocked,
                 classifierVars, consentVars, scraperVars, discoverVars, rotationVars, expandVars>>

\* the blocking check, the keep/discard decision and the push (1378-1450)
DecideListing ==
  /\ l_pc = "decide"
  /\ \E isBlocked \in BOOLEAN, debug \in SaveDebugOutcomes :
       /\ ~isBlocked => debug = "saved"
       /\ l_blocked' = isBlocked
       /\ IF isBlocked /\ debug = "threw"
          THEN /\ l_pc' = "catch"
               /\ l_thrown' = "other"
               /\ l_failed' = l_failed \cup {"debug"}
               /\ UNCHANGED <<l_record, l_decided>>
          ELSE /\ l_decided' = TRUE
               /\ l_record' = IF isRealBusinessWebsite(l_website) THEN <<>>
                              ELSE << [Name       |-> l_businessName,
                                       Address    |-> OrEmpty(l_address),
                                       Website    |-> OrEmpty(cleanWebsiteUrl(l_website)),
                                       Phone      |-> OrEmpty(l_phone),
                                       Rating     |-> OrEmpty(l_rating),
                                       Hours      |-> OrEmpty(l_hours),
                                       PriceLevel |-> OrEmpty(l_priceLevel)] >>
               /\ l_pc' = "next"
               /\ UNCHANGED <<l_thrown, l_failed>>
  /\ UNCHANGED <<l_pageAt, l_businessName, l_address, l_website, l_phone, l_rating, l_hours,
                 l_priceLevel, l_restarted, l_cascade, l_swept,
                 classifierVars, consentVars, scraperVars, discoverVars, rotationVars, expandVars>>

\* the catch of the iteration (1452-1524): after a crash error the browser
\* is closed and another launched, then `continue`; any other error is
\* logged.  Either way the loop goes on to the next listing.
CatchListing ==
  /\ l_pc = "catch"
  /\ \E restartOk \in BOOLEAN :
       l_restarted' = (l_thrown = "crash" /\ restartOk)
  /\ l_pc' = "next"
  /\ UNCHANGED <<l_pageAt, l_businessName, l_address, l_website, l_phone, l_rating, l_hours,
                 l_priceLevel, l_thrown, l_record, l_failed, l_decided, l_cascade, l_swept,
                 l_blocked,
                 classifierVars, consentVars, scraperVars, discoverVars, rotationVars, expandVars>>

ListingNext ==
  \/ NavigateListing
  \/ ExtractName
  \/ ExtractAddress
  \/ ExtractWebsiteField
  \/ ExtractPhone
  \/ ExtractDetails
  \/ DecideListing
  \/ CatchListing

SpecListing == ListingInit /\ [][ListingNext]_vars

(***************************************************************************)
(* The shared browser session of processAllIndustries (scraper.js          *)
(* 1621-1766), one step per industry                                       *)
(***************************************************************************)
RotationInit ==
  /\ ClassifierOff
  /\ ConsentOff
  /\ ScraperOff
  /\ DiscoverOff
  /\ ListingOff
  /\ ExpandOff
  /\ r_pc = "rotate"
  /\ r_index = 1
  /\ r_businessesProcessed = 0
  /\ r_sharedBrowser = NoBrowser
  /\ r_launches = 0
  /\ r_createdAt = 0

\* head of the industries loop with the session rotation test (1626-1642)
RotateSession ==
  /\ r_pc = "rotate"
  /\ IF r_index > MaxRotationIndustries
     THEN r_pc' = "done" /\ UNCHANGED r_sharedBrowser
     ELSE /\ r_sharedBrowser' =
               IF /\ r_businessesProcessed > 0
                  /\ r_businessesProcessed % SESSION_ROTATION_INTERVAL = 0
               THEN NoBrowser ELSE r_sharedBrowser
          /\ r_pc' = "scrape"
  /\ UNCHANGED <<r_index, r_businessesProcessed, r_launches, r_createdAt,
                 classifierVars, consentVars, scraperVars, discoverVars, listingVars, expandVars>>

\* the retry loop and what follows it (1644-1798): the scrape launches a
\* browser when sharedBrowser is null, and again when it recovers from a
\* crash; an industry that returns records hands its browser back to
\* sharedBrowser and adds the number of records to businessesProcessed; one
\* that fails changes neither
IndustryRuns ==
  /\ r_pc = "scrape"
  /\ \E kept \in 0..MaxListings, crashRecovery \in BOOLEAN :
       LET launched == r_sharedBrowser = NoBrowser \/ crashRecovery
       IN  /\ r_launches' = IF launched THEN r_launches + 1 ELSE r_launches
           /\ IF kept > 0
              THEN /\ r_sharedBrowser' = IF launched THEN r_launches + 1 ELSE r_sharedBrowser
                   /\ r_createdAt' = IF launched THEN r_businessesProcessed ELSE r_createdAt
                   /\ r_businessesProcessed' = r_businessesProcessed + kept
              ELSE UNCHANGED <<r_sharedBrowser, r_createdAt, r_businessesProcessed>>
  /\ r_index' = r_index + 1
  /\ r_pc' = "rotate"
  /\ UNCHANGED <<classifierVars, consentVars, scraperVars, discoverVars, listingVars, expandVars>>

RotationNext ==
  \/ RotateSession
  \/ IndustryRuns

SpecRotation == RotationInit /\ [][RotationNext]_vars

(***************************************************************************)
(* handleConsent (scraper.js 409-569)                                      *)
(***************************************************************************)
maxConsentAttempts == 3

\* the pages a navigation or a click can leave the browser on
Pages == {"consent", "search"}

\* `currentUrl.includes('consent.google.com') || currentUrl.includes('/consent')
\*  || currentUrl.includes('consent')`
IsConsentUrl(u) == u = "consent"

\* handleConsent is called on a page that shows some earlier location
ConsentInit ==
  /\ ClassifierOff
  /\ ScraperOff
  /\ DiscoverOff
  /\ ListingOff
  /\ RotationOff
  /\ ExpandOff
  /\ cs_pc = "navigate"
  /\ consentAttempts = 0
  /\ cs_page \in Pages
  /\ currentUrl = "search"
  /\ cs_navigation = "none"
  /\ cs_prompts = 0
  /\ cs_exit = NoExit
  /\ cs_lastAttempt = NoConsentAttempt

\* the first page.goto, whose timeout is caught, and
\* `let currentUrl = page.url()` (410-425)
ConsentNavigate ==
  /\ cs_pc = "navigate"
  /\ \E navigation \in {"ok", "timeout"}, pageAfter \in Pages :
       /\ cs_navigation' = navigation
       /\ cs_page' = pageAfter
       /\ currentUrl' = pageAfter
  /\ cs_pc' = "loop"
  /\ UNCHANGED <<consentAttempts, cs_prompts, cs_exit, cs_lastAttempt,
                 classifierVars, scraperVars, discoverVars, listingVars, rotationVars, expandVars>>

\* one iteration of the consent loop (427-550)
ConsentAttempt ==
  /\ cs_pc = "loop"
  /\ IsConsentUrl(currentUrl)
  /\ consentAttempts < maxConsentAttempts
  /\ consentAttempts' = consentAttempts + 1
  /\ \E clicked \in {"yes", "no", "throws"}, continueUrl \in {"none", "found", "throws", "gotoThrows"},
        pageAfter \in Pages, pageAfterPrompt \in Pages :
       LET threw == clicked = "throws" \/ (clicked = "no" /\ continueUrl \in {"throws", "gotoThrows"})
       IN  /\ clicked # "no" => continueUrl = "none"
           \* the page changes by the click or by page.goto(continueUrl) only
           /\ (clicked # "yes" /\ continueUrl \notin {"found", "gotoThrows"}) => pageAfter = cs_page
           /\ cs_lastAttempt' = [clicked |-> clicked, continueUrl |-> continueUrl, threw |-> threw]
           /\ IF threw
              THEN \* the catch logs the error; the while test comes next
                   /\ pageAfterPrompt = pageAfter
                   /\ cs_page' = pageAfter
                   /\ UNCHANGED <<cs_pc, currentUrl, cs_prompts, cs_exit>>
              ELSE IF ~IsConsentUrl(pageAfter)
              THEN \* break: passed the consent screen
                   /\ pageAfterPrompt = pageAfter
                   /\ cs_page' = pageAfter
                   /\ currentUrl' = pageAfter
                   /\ cs_exit' = [by |-> "passed", page |-> pageAfter]
                   /\ cs_pc' = "final"
                   /\ UNCHANGED cs_prompts
              ELSE IF consentAttempts' >= maxConsentAttempts
              THEN \* the readline prompt, then break
                   /\ cs_prompts' = cs_prompts + 1
                   /\ cs_page' = pageAfterPrompt
                   /\ currentUrl' = pageAfterPrompt
                   /\ cs_exit' = [by |-> "prompted", page |-> pageAfter]
                   /\ cs_pc' = "final"
              ELSE /\ pageAfterPrompt = pageAfter
                   /\ cs_page' = pageAfter
                   /\ currentUrl' = pageAfter
                   /\ UNCHANGED <<cs_pc, cs_prompts, cs_exit>>
  /\ UNCHANGED <<cs_navigation, classifierVars, scraperVars, discoverVars, listingVars,
                 rotationVars, expandVars>>

\* the while test fails (427)
ConsentLoopEnds ==
  /\ cs_pc = "loop"
  /\ ~(IsConsentUrl(currentUrl) /\ consentAttempts < maxConsentAttempts)
  /\ cs_exit' = [by |-> "test", page |-> cs_page]
  /\ cs_pc' = "final"
  /\ UNCHANGED <<consentAttempts, currentUrl, cs_page, cs_navigation, cs_prompts, cs_lastAttempt,
                 classifierVars, scraperVars, discoverVars, listingVars, rotationVars, expandVars>>

\* the final check (552-568): on a consent URL the continue parameter is
\* tried once more; then handleConsent returns
ConsentFinalCheck ==
  /\ cs_pc = "final"
  /\ currentUrl' = cs_page
  /\ \E pageAfter \in Pages :
       /\ ~IsConsentUrl(cs_page) => pageAfter = cs_page
       /\ cs_page' = pageAfter
  /\ cs_pc' = "returned"
  /\ UNCHANGED <<consentAttempts, cs_navigation, cs_prompts, cs_exit, cs_lastAttempt,
                 classifierVars, scraperVars, discoverVars, listingVars, rotationVars, expandVars>>

ConsentNext ==
  \/ ConsentNavigate
  \/ ConsentAttempt
  \/ ConsentLoopEnds
  \/ ConsentFinalCheck

SpecConsent == ConsentInit /\ [][ConsentNext]_vars

(***************************************************************************)
(* Properties                                                              *)
(***************************************************************************)
AllWebsitesEmpty(rows) == \A i \in 1..Len(rows) : rows[i].Website = EmptyString

\* C1: every record the scraper holds or writes, in either variant, has the
\* empty string as its Website, and a listing whose extracted website
\* isRealBusinessWebsite classifies as real is never appended to excelData.
C1_WebsiteAlwaysEmpty ==
  /\ AllWebsitesEmpty(excelData)
  /\ AllWebsitesEmpty(industryResult.data)
  /\ AllWebsitesEmpty(allResults)
  /\ AllWebsitesEmpty(workbook)
  /\ lastListing.processed =>
       (lastListing.kept <=> ~isRealBusinessWebsite(lastListing.website))

\* a listing with a deny-listed link has been kept, its Website emptied
C1_Witness ==
  /\ lastListing.kept
  /\ lastListing.website \notin {NotFound, EmptyString}
  /\ Len(excelData) > 0
  /\ excelData[Len(excelData)].Website = EmptyString

\* C2: once the results workbook is written, every listing that was
\* processed without error and had no website or only a deny-listed link is
\* a row of it, with Website "" (and, in the orchestrator, under the
\* industry it was found in).
C2_KeptListingsPersisted ==
  written =>
    \A e \in keptLog :
      \E i \in 1..Len(workbook) :
        /\ workbook[i].Name = e.url
        /\ workbook[i].Website = EmptyString
        /\ variant = "orchestrator" => workbook[i].Industry = e.industry

\* the orchestrator has written a workbook holding kept listings of two
\* industries
C2_Witness ==
  /\ variant = "orchestrator"
  /\ written
  /\ \E e, f \in keptLog : e.industry # f.industry
  /\ Len(workbook) >= 2

\* C3: once an industry has ended with no results after its retries, or
\* with a blocking error on its last retry, scrapeGoogleMaps is not invoked
\* for any later industry.
C3_NoIndustryAfterFailure ==
  \A f \in failedIndustries :
    f.error \in {"noresults", "blocking"} =>
      \A c \in 1..Len(scrapeCalls) : scrapeCalls[c] <= f.industry

\* C4: the scraper process ends with a non-zero status whenever some
\* industry yielded no results after its retries.
C4_FailedIndustryExitsNonZero ==
  (exited /\ \E f \in failedIndustries : f.error = "noresults") => exitCode # 0

\* C5: at every point of an orchestrator run at most one browser is open.
C5_AtMostOneBrowser ==
  variant = "orchestrator" => Cardinality(openBrowsers) <= 1

\* C6: after an interrupt that found k records finished and saved the
\* progress workbook, that workbook holds the results of records 1..k and,
\* for every later record, the values it had when the pass started.
C6_ProgressAfterInterrupt ==
  (atSignal.received /\ atSignal.saved) =>
    /\ progressFile.written
    /\ \A i \in 1..Len(data) :
         progressFile.rows[i] = IF i <= atSignal.k THEN atSignal.data[i] ELSE loaded[i]

\* C7: an interrupt brings exactly one checkpoint save attempt, and after
\* it the main loop and the code after the loop save and write nothing.
C7_OneSaveAfterInterrupt ==
  atSignal.received => (atSignal.attempts = 1 /\ mainWritesAfterSignal = 0)

C9_InterruptExitsZero ==
  (e_exited /\ atSignal.received) => e_exitCode = 0

\* the hostname of url is a deny-list entry, a subdomain of one, or one
\* prefixed with www.
HostDenyListed(url) ==
  LET urlObj == ParseURL(url)
      host   == urlObj.hostname
  IN  /\ urlObj.ok
      /\ \E k \in 1..Len(nonBusinessDomains) :
           LET d == nonBusinessDomains[k]
           IN  \/ host = d
               \/ host = S_www \o <<".">> \o d
               \/ /\ Len(host) > Len(d) + 1
                  /\ SubSeq(host, Len(host) - Len(d), Len(host)) = <<".">> \o d

\* C10: for every URL whose hostname is a deny-list entry, a subdomain of
\* one or a www. variant of one, isRealBusinessWebsite returns false and
\* cleanWebsiteUrl returns the empty string.
C10_DenyListedRejected ==
  (c_pc = "done" /\ HostDenyListed(c_url)) =>
    (c_isReal = FALSE /\ c_clean = EmptyString)

\* both functions have been applied to a URL on a subdomain of a deny-list
\* entry
C10_Witness ==
  /\ c_pc = "done"
  /\ HostDenyListed(c_url)
  /\ \A k \in 1..Len(nonBusinessDomains) :
       ParseURL(c_url).hostname \notin {nonBusinessDomains[k], S_www \o <<".">> \o nonBusinessDomains[k]}
  /\ c_isReal = FALSE
  /\ c_clean = EmptyString

\* the last two dot-separated labels of the hostname of url
RegistrableDomain(url) ==
  LET labels == Split(ParseURL(url).hostname, ".")
  IN  labels[Len(labels) - 1] \o <<".">> \o labels[Len(labels)]

\* C11: for every URL that parses and whose registrable domain is not a
\* deny-list entry, isRealBusinessWebsite returns true and cleanWebsiteUrl
\* returns the URL unchanged.
C11_OtherDomainsAccepted ==
  (/\ c_pc = "done"
   /\ ParseURL(c_url).ok
   /\ Len(Split(ParseURL(c_url).hostname, ".")) >= 2
   /\ RegistrableDomain(c_url) \notin DenyListed)
    => (c_isReal = TRUE /\ c_clean = c_url)

\* C12: for the empty string, for 'Not found' and for every string the URL
\* parser rejects, isRealBusinessWebsite returns false and cleanWebsiteUrl
\* returns the empty string; the parser's TypeError is caught inside
\* isRealBusinessWebsite, so both calls return.
C12_UnparseableRejected ==
  (/\ c_pc = "done"
   /\ (c_url \in {EmptyString, NotFound} \/ ~ParseURL(c_url).ok))
    => (c_isReal = FALSE /\ c_clean = EmptyString)

\* both functions have returned for a non-empty string that `new URL`
\* rejects
C12_Witness ==
  /\ c_pc = "done"
  /\ c_url \notin {EmptyString, NotFound}
  /\ ~ParseURL(c_url).ok
  /\ c_isReal = FALSE
  /\ c_clean = EmptyString

\* C13: the scroll loop begins at most maxPageDowns iterations, and while
\* no iteration has added a URL it begins at most three of them.
C13_StopsAtThirdEmptyAttempt ==
  /\ attemptsStarted <= maxPageDowns(d_variant)
  /\ allBusinessUrls = <<>> => attemptsStarted <= 3

\* C14: an iteration that grows allBusinessUrls leaves noNewResultsCount at
\* 0, the extra PageDown presses are made exactly by the iterations that
\* bring noNewResultsCount to 2, and once noNewResultsCount is 3 the loop
\* has ended, whatever remains of maxPageDowns.
C14_StagnationPolicy ==
  /\ (lastAttempt.outcome = "collected" /\ Len(allBusinessUrls) > Len(lastAttempt.before))
       => noNewResultsCount = 0
  /\ lastAttempt.escalated <=>
       (/\ lastAttempt.outcome = "collected"
        /\ lastAttempt.counterBefore = 1
        /\ noNewResultsCount = 2)
  /\ noNewResultsCount >= 3 => d_pc \in {"convert", "done"}

\* the values held by a sequence
Range(s) == {s[i] : i \in 1..Len(s)}

\* C15: allBusinessUrls never holds a URL twice, an iteration leaves in it
\* exactly the URLs it held before and the URLs of the query, and a query
\* returning only URLs already held leaves it as it was.
C15_DiscoveryIdempotent ==
  /\ Cardinality(Range(allBusinessUrls)) = Len(allBusinessUrls)
  /\ lastAttempt.outcome = "collected" =>
       /\ Range(allBusinessUrls) = Range(lastAttempt.before) \cup Range(lastAttempt.currentUrls)
       /\ Range(lastAttempt.currentUrls) \subseteq Range(lastAttempt.before)
            => allBusinessUrls = lastAttempt.before

\* a later query has returned, more than once over, two URLs that were both
\* collected already
C15_Witness ==
  /\ attemptsStarted >= 2
  /\ lastAttempt.outcome = "collected"
  /\ Len(lastAttempt.currentUrls) = 2
  /\ Range(lastAttempt.currentUrls) \subseteq Range(lastAttempt.before)
  /\ allBusinessUrls = lastAttempt.before

\* C16: scrapeGoogleMaps is invoked for the industries in list order, the
\* first first and none before its predecessor; the iterations of a listing
\* loop take the listings in the order of results, which is the order the
\* scroll loop collected them in; an iteration is only begun inside the
\* scrape of the industry at hand, after the iterations before it.
C16_ListOrderAndDiscoveryOrder ==
  /\ \A c \in 1..Len(scrapeCalls) :
       /\ scrapeCalls[c] <= index
       /\ scrapeCalls[c] \in (IF c = 1 THEN {1} ELSE {scrapeCalls[c - 1], scrapeCalls[c - 1] + 1})
  /\ Len(listingLog) <= Len(results)
  /\ \A k \in 1..Len(listingLog) : listingLog[k].url = results[k]
  /\ listingLog # <<>> =>
       /\ pc \in {"listing", "singleListing", "settled"}
       /\ lindex = Len(listingLog) + 1
       /\ variant = "orchestrator" => scrapeCalls[Len(scrapeCalls)] = index

\* the second industry's scrape has processed two listings, collected in
\* the order 2, 1
C16_Witness ==
  /\ variant = "orchestrator"
  /\ index = 2
  /\ scrapeCalls[1] = 1
  /\ Len(listingLog) = 2
  /\ results = <<2, 1>>
  /\ listingLog[1].url = 2
  /\ listingLog[2].url = 1

\* the value the iteration holds for a field
FieldValue(field) ==
  IF field = "name" THEN l_businessName
  ELSE IF field = "address" THEN l_address
  ELSE IF field = "website" THEN l_website
  ELSE IF field = "phone" THEN l_phone
  ELSE IF field = "rating" THEN l_rating
  ELSE IF field = "hours" THEN l_hours
  ELSE l_priceLevel

\* C17: an iteration of the listing loop in which nothing but field
\* extractions failed ends having reached the keep/discard decision, with
\* every field whose extraction failed holding its sentinel.
C17_FieldFailureKeepsRecord ==
  (l_pc = "next" /\ l_failed \subseteq Fields) =>
    \A field \in l_failed : l_decided /\ FieldValue(field) = Sentinel(field)

\* C19: an industry never starts on a shared browser that was launched
\* SESSION_ROTATION_INTERVAL or more businesses ago: by then the rotation
\* has closed it.
C19_RotatesEveryInterval ==
  (r_pc = "scrape" /\ r_sharedBrowser # NoBrowser) =>
    r_businessesProcessed - r_createdAt < SESSION_ROTATION_INTERVAL

\* the number of scrapeGoogleMaps invocations made for an industry
CallsFor(industry) == Cardinality({c \in 1..Len(scrapeCalls) : scrapeCalls[c] = industry})

\* C18: scrapeGoogleMaps is invoked at most maxIndustryRetries times for
\* any one industry, whatever its invocations return or throw.
C18_AtMostThreeScrapes ==
  \A industry \in 1..NumIndustries : CallsFor(industry) <= maxIndustryRetries

\* the first industry has used its three invocations, the last of which
\* threw, and the second industry has been invoked once already
C18_Witness ==
  /\ CallsFor(1) = maxIndustryRetries
  /\ CallsFor(2) = 1
  /\ \E f \in failedIndustries : f.industry = 1 /\ f.error = "other"

\* C20: a listing whose iteration ended in the crash recovery is the
\* listing of the next iteration of the loop too, and the scrape does not
\* return before that iteration.
C20_CrashedListingRetried ==
  /\ \A k \in 1..Len(listingLog) :
       (listingLog[k].outcome = "crash" /\ k < Len(listingLog))
         => listingLog[k + 1].url = listingLog[k].url
  /\ (listingLog # <<>> /\ listingLog[Len(listingLog)].outcome = "crash")
       => lindex <= Len(listingLog)

\* C21: the operator is only asked once maxConsentAttempts iterations have
\* been made, and a consent loop that ended with maxConsentAttempts
\* iterations made and the page still showing the consent screen has asked
\* the operator.
C21_PromptExactlyWhenExhausted ==
  /\ cs_prompts > 0 => consentAttempts = maxConsentAttempts
  /\ (/\ cs_exit.by # "none"
      /\ consentAttempts = maxConsentAttempts
      /\ cs_exit.page = "consent")
       => cs_prompts = 1

\* C22: an iteration of the scroll loop whose DOM query failed leaves
\* allBusinessUrls as it was and does not end the loop, which goes on unless
\* maxPageDowns is used up; and every iteration that did not end the loop,
\* a failed query included, has been counted in pageDownAttempts.
C22_QueryFailureOnlyCostsAnAttempt ==
  /\ lastAttempt.outcome = "queryError" =>
       /\ allBusinessUrls = lastAttempt.before
       /\ noNewResultsCount = lastAttempt.counterBefore
       /\ d_pc = "scroll" \/ pageDownAttempts >= maxPageDowns(d_variant)
  /\ d_pc = "scroll" => pageDownAttempts = attemptsStarted

\* a query has failed after URLs had been collected: the URLs are still
\* held, the iteration is counted and the loop is about to make another
C22_Witness ==
  /\ lastAttempt.outcome = "queryError"
  /\ Len(allBusinessUrls) = 2
  /\ allBusinessUrls = lastAttempt.before
  /\ d_pc = "scroll"
  /\ attemptsStarted = 2
  /\ pageDownAttempts = 2
  /\ pageDownAttempts < maxPageDowns(d_variant)

\* C23: a block signal detected after a listing's extraction does not skip
\* the listing: the iteration still reaches the keep/discard decision.
C23_BlockSignalIsAdvisory ==
  (l_pc = "next" /\ l_blocked) => l_decided

\* C24: in a kept record each of Address, Phone, Rating, Hours and
\* PriceLevel is an extracted value or 'Not found', never the empty string.
C24_NoEmptyField ==
  \A k \in 1..Len(l_record) :
    /\ l_record[k].Address # EmptyString
    /\ l_record[k].Phone # EmptyString
    /\ l_record[k].Rating # EmptyString
    /\ l_record[k].Hours # EmptyString
    /\ l_record[k].PriceLevel # EmptyString

\* C25: whenever the loop over the phone selectors ends without a phone
\* number, the search of the whole page text for a phone number runs.
C25_SweepAfterFailedCascade ==
  (l_swept # "unreached" /\ l_cascade # S_phone) => l_swept = "ran"

\* C29: a record is kept only from an extraction made while the page was at
\* the listing's own URL.
C29_ExtractsOnlyAtListing ==
  l_record # <<>> => l_pageAt = "listing"

\* C26: at the head of every iteration of the industries loop, timingData
\* holds exactly one entry for each industry attempted so far, in industry
\* order.
C26_OneTimingEntryPerIndustry ==
  pc = "industryStart" =>
    /\ Len(timingData) = index - 1
    /\ \A k \in 1..Len(timingData) : timingData[k].industry = k

\* the record lacks a usable Contact Person or a usable Business Phone
LacksContact(business) ==
  \/ business.Contact_Person \in {Undefined, NOT_FOUND}
  \/ business.Business_Phone \in {Undefined, NOT_FOUND}

C28_EmergencyOnlyAfterFailedShutdownSave ==
  emergencyFile.written =>
    /\ isShuttingDown
    /\ atSignal.received
    /\ atSignal.outcome \in {"copyFails", "fail"}

\* the handler's saveProgress wrote the progress workbook, failed on the
\* timestamped copy and returned null: the emergency workbook was written
C28_Witness ==
  /\ emergencyFile.written
  /\ emergencyFile.rows = atSignal.data
  /\ atSignal.outcome = "copyFails"
  /\ progressFile.written

\* scrapeGoogleMaps returned after finding listings and keeping none
AllDiscarded ==
  /\ ~industryResult.null
  /\ industryResult.timing.totalBusinessesFound > 0
  /\ Len(industryResult.data) = 0

\* C30: an industry whose listings were all discarded is retried while
\* retries remain; after the last one it gets the 'No results after
\* retries' timing entry and the error is thrown, and none of it reaches
\* allResults.
C30_AllDiscardedIsNoResults ==
  [][ /\ (pc = "retryCheck" /\ AllDiscarded) =>
           IF industryRetries < maxIndustryRetries - 1
           THEN pc' = "retryLoop" /\ industryRetries' = industryRetries + 1
           ELSE pc' = "afterRetries" /\ industryRetries' = industryRetries
      /\ (pc = "afterRetries" /\ AllDiscarded) =>
           /\ timingData' = Append(timingData, ErrorTiming(index, "noresults"))
           /\ thrown' = "noresults"
           /\ allResults' = allResults
           /\ pc' = "outerCatch"
    ]_vars

\* the first industry was scraped three times, the last scrape found two
\* listings, processed both and kept none, and the error has been thrown
C30_Witness ==
  /\ pc = "outerCatch"
  /\ index = 1
  /\ thrown = "noresults"
  /\ AllDiscarded
  /\ industryResult.timing.totalBusinessesFound = 2
  /\ industryResult.timing.businessesFiltered = 2
  /\ CallsFor(1) = maxIndustryRetries
  /\ timingData = <<ErrorTiming(1, "noresults")>>

\* C31: a record that held both Contact Person and Business Phone when the
\* data was loaded, and is therefore never processed, keeps its values
\* whatever other records are processed.
C31_OtherRecordsUntouched ==
  \A j \in 1..Len(data) : shouldSkip(loaded[j]) => data[j] = loaded[j]

\* the records the loop has passed and sent to the lookup
Processed == {j \in 1..Len(data) : j < e_index /\ ~shouldSkip(loaded[j])}

\* C32: every processed record holds, for Contact Person and for Business
\* Phone, an extracted string or 'Not found', and foundCount does not exceed
\* the number of processed records whose Contact Person is an extracted
\* name.
C32_ProcessedFieldsAreSet ==
  /\ \A j \in Processed :
       /\ data[j].Contact_Person \in {NOT_FOUND} \cup ContactPersons
       /\ data[j].Business_Phone \in {NOT_FOUND} \cup BusinessPhones
  /\ foundCount <= Cardinality({j \in Processed : data[j].Contact_Person \in ContactPersons})

\* C33: a signal delivered while a shutdown is in progress changes nothing
\* the handler acts on: no workbook is written, the browser and the
\* handler's position are as they were, and no exit is taken.
C33_RepeatedSignalDoesNothing ==
  [][ (isShuttingDown /\ signals' = signals + 1) =>
        /\ UNCHANGED <<progressFile, emergencyFile, outputFile>>
        /\ UNCHANGED <<h_pc, browserOpen, e_exited, e_exitCode>>
        /\ UNCHANGED <<atSignal, lastSaveWrote, shouldStop, isShuttingDown>>
    ]_vars

\* a second signal has arrived while the handler of the first, which saved
\* the progress workbook, waits for browser.close
C33_Witness ==
  /\ signals = 2
  /\ isShuttingDown
  /\ h_pc = "closing"
  /\ browserOpen
  /\ atSignal.attempts = 1
  /\ atSignal.outcome = "ok"
  /\ progressFile.written
  /\ ~e_exited

\* C34: after the first signal no record is sent to the lookup, and the
\* records passed number at most one more than when the signal arrived.
C34_NoRecordStartsAfterSignal ==
  [][ atSignal.received =>
        /\ ~(e_pc # "lookup" /\ e_pc' = "lookup")
        /\ updatedCount' + skippedCount' <= atSignal.k + 1
    ]_vars

\* the signal arrived during the lookup of the first of two records that
\* both lack a contact; the first was completed and the loop was left
C34_Witness ==
  /\ atSignal.received
  /\ atSignal.k = 0
  /\ Len(data) = 2
  /\ ~shouldSkip(loaded[2])
  /\ updatedCount = 1
  /\ e_index = 1
  /\ e_pc = "postLoop"

\* C35: an iteration whose query fails leaves noNewResultsCount as it was,
\* and a scroll loop in which every query failed has ended only with all
\* maxPageDowns iterations made.
C35_FailedQueriesUseWholeBudget ==
  /\ lastAttempt.outcome = "queryError" => noNewResultsCount = lastAttempt.counterBefore
  /\ (/\ lastAttempt.outcome = "queryError"
      /\ allBusinessUrls = <<>>
      /\ noNewResultsCount = 0
      /\ d_pc \in {"convert", "done"})
       => /\ pageDownAttempts = maxPageDowns(d_variant)
          /\ attemptsStarted = maxPageDowns(d_variant)

\* every query of the four iterations failed and the loop has ended
C35_Witness ==
  /\ d_variant = "orchestrator"
  /\ d_pc = "done"
  /\ lastAttempt.outcome = "queryError"
  /\ allBusinessUrls = <<>>
  /\ noNewResultsCount = 0
  /\ attemptsStarted = 4
  /\ d_results = <<>>

\* the latest iteration ended with an exception of a scroll action: one of
\* the calls at its head, or the extra PageDown presses
ScrollException == lastAttempt.outcome = "scrollError" \/ lastAttempt.pressThrew

\* the scroll loop has ended with the URLs held before the latest
\* iteration, and they are what is handed to the listing loop
EndedWithUrlsRetained ==
  /\ d_pc \in {"convert", "done"}
  /\ allBusinessUrls = lastAttempt.before
  /\ d_pc = "done" => d_results = lastAttempt.before

\* C36 as stated: an exception of any scroll action ends the scroll loop
\* at once, with the URLs collected so far retained and handed on.
C36_ScrollExceptionEndsDiscovery ==
  ScrollException => EndedWithUrlsRetained

\* C36: an exception of a scroll action at the head of an iteration ends
\* the scroll loop at once, with the URLs collected so far retained and
\* handed on; an exception of the extra PageDown presses costs only the
\* iteration, and the loop goes on while iterations remain.
C36_HeadScrollExceptionEndsDiscovery ==
  /\ lastAttempt.outcome = "scrollError" => EndedWithUrlsRetained
  /\ lastAttempt.pressThrew =>
       /\ noNewResultsCount = 2
       /\ d_pc = "scroll" \/ pageDownAttempts >= maxPageDowns(d_variant)

\* the second iteration threw while scrolling, after the first had
\* collected two URLs; both have been handed on
C36_Witness ==
  /\ lastAttempt.outcome = "scrollError"
  /\ Len(lastAttempt.before) = 2
  /\ attemptsStarted = 2
  /\ d_pc = "done"
  /\ d_results = lastAttempt.before

\* the listings of the running scrape that were processed without error
\* and discarded for their real website
DiscardedForWebsite ==
  Cardinality({k \in 1..Len(listingLog) : listingLog[k].outcome = "ok"}) - Len(excelData)

\* C37: the timing record scrapeGoogleMaps returns has businessesKept +
\* businessesFiltered = businessesProcessed <= totalBusinessesFound, and
\* its businessesFiltered is the number of listings discarded for having a
\* real website.
C37_TimingCountsAddUp ==
  [][ (pc = "listing" /\ pc' = "retryCheck") =>
        /\ industryResult'.timing.businessesKept + industryResult'.timing.businessesFiltered
             = industryResult'.timing.businessesProcessed
        /\ industryResult'.timing.businessesProcessed
             <= industryResult'.timing.totalBusinessesFound
        /\ industryResult'.timing.businessesFiltered = DiscardedForWebsite
    ]_vars

====
